---- MODULE Spec2Model ----
(***************************************************************************)
(* Aethelgard: Event Horizon -- combat and control core.                   *)
(*                                                                         *)
(* The model follows the JavaScript sources: the player ship               *)
(* (js/ship/aurelian.js), the weapon system (js/ship/weapons.js), the      *)
(* enemy agent (js/combat/enemyAI.js), the wave manager                    *)
(* (combat/waveManager.js), the gesture classifier (js/handTracking.js)    *)
(* and the driving loop (js/game.js).                                      *)
(*                                                                         *)
(* Time is the wall clock performance.now() in milliseconds.  Quantities   *)
(* the code keeps as floating point (energy, shield, hull) are kept in     *)
(* thousandths of a unit, so that value * deltaTime * 0.001 stays an       *)
(* integer for every deltaTime in milliseconds.                            *)
(***************************************************************************)
EXTENDS Integers, Sequences, FiniteSets, TLC

VARIABLES
    now,            \* performance.now(), ms
    lastTime,       \* Game.lastTime, ms
    ship,           \* Aurelian: hull, shield, energy, flags, roll animation
    shieldTimers,   \* the setInterval/setTimeout pairs made by activateShield
    ret,            \* what the last Aurelian.takeDamage call returned
    hits,           \* number of takeDamage calls so far
    gameState,      \* Game.state
    isRunning,      \* Game.isRunning
    frameDue,       \* the display has refreshed and gameLoop has not run yet
    loop,           \* gameLoop callbacks waiting for an animation frame, and
                    \* the Game.update runs of the last display frame
    sessions,       \* number of startGame calls so far
    rolls,          \* the Math.random() outcomes behind the wave table
    wm,             \* WaveManager: wave number, counters, spawn queue, timing
    activeEnemies,  \* WaveManager.activeEnemies
    waveTransitioning,  \* Game.waveTransitioning
    waveTimers,     \* pending wave-transition setTimeouts: ms still to run
    completeCalls,  \* onWaveComplete invocations since the last startWave
    killCalls,      \* onEnemyKilled calls of the last WaveManager.update, by type
                    \* (kept by SpecConfig, SpecWeapons and SpecLoop)
    pc,             \* the step of Game.update that runs next ("idle": none)
    deltaTime,      \* Game.deltaTime of the frame in progress, ms
    weapons,        \* Weapons: currentWeapon, lastFired per weapon, laser.active,
                    \* activeBeam; fault: the last Weapons.update threw
    projectiles,    \* Weapons.projectiles (railgun slugs in flight)
    harpoons,       \* Weapons.harpoons
    meshes,         \* position of every enemy mesh ever created, by enemy id
    fireResult,     \* what the last Weapons.firePrimary call returned
    fireCalls,      \* number of firePrimary calls so far
    enemy,          \* one Enemy of the roster
    attackLog,      \* times of that enemy's successful attack() calls
    leftHand,       \* HandTracker.leftHand
    rightHand,      \* HandTracker.rightHand
    currentGesture, \* HandTracker.currentGesture
    previousGesture,    \* HandTracker.previousGesture
    notified,       \* onGestureChange calls made by the last processResults
    aimPosition,    \* HandTracker.aimPosition
    smoothAimPosition   \* HandTracker.smoothAimPosition

clockVars == <<now, lastTime>>
shipVars == <<ship, shieldTimers, ret, hits>>
waveVars == <<gameState, isRunning, frameDue, loop, sessions, rolls, wm,
              activeEnemies, waveTransitioning, waveTimers, completeCalls,
              killCalls>>
weaponVars == <<pc, deltaTime, weapons, projectiles, harpoons, meshes,
                fireResult, fireCalls>>
enemyVars == <<enemy, attackLog>>
handVars == <<leftHand, rightHand, currentGesture, previousGesture, notified,
              aimPosition, smoothAimPosition>>
vars == <<now, lastTime, ship, shieldTimers, ret, hits, gameState, isRunning,
          frameDue, loop, sessions, rolls, wm, activeEnemies, waveTransitioning,
          waveTimers, completeCalls, killCalls, pc, deltaTime, weapons,
          projectiles,
          harpoons, meshes, fireResult, fireCalls, enemy, attackLog, leftHand,
          rightHand, currentGesture, previousGesture, notified, aimPosition,
          smoothAimPosition>>

----------------------------------------------------------------------------
(* Bounds of the model *)

MaxTime == 3200         \* SpecShip: the clock stops advancing here (ms)
MaxRollTime == 700      \* SpecRoll: the clock stops advancing here (ms)
MaxHits == 2            \* takeDamage calls explored in one run
MaxWave == 2            \* SpecWave: play stops once a wave beyond this starts
MaxSessions == 2        \* SpecWave: startGame calls explored in one run
MaxWeaponTime == 1000   \* SpecWeapons: play time explored (ms)
MaxFireCalls == 3       \* SpecWeapons: firePrimary calls explored in one run
MaxEnemyTime == 3000    \* SpecEnemy: play time explored (ms)
MaxPauseTime == 3200    \* SpecPause: the clock stops advancing here (ms)
MaxConfigWave == 21     \* SpecConfig: the last wave started
MaxKills == 2           \* SpecConfig: enemies hit in one run
MaxLoopTime == 400      \* SpecLoop: ms of display frames explored
MaxCompleteCalls == 1   \* SpecConfig: updates explored on a completed wave

TickSteps == {100}                      \* one display frame per step (ms)
DamageAmounts == {0, 10, 50}            \* amounts passed to takeDamage (units)
ShipGestures == {"IDLE", "THRUST", "BRAKE", "BOOST", "BARREL_ROLL", "SHIELD"}
RollGestures == {"IDLE", "BARREL_ROLL"}
PauseGestures == {"IDLE", "BARREL_ROLL", "SHIELD"}
RollDamage == {10, 50}                  \* the same, for hits around a roll
FrameDeltas == {100}                    \* Game.deltaTime of a frame (ms)
Salvo == {1, 2}                         \* railgun hits on one enemy in a frame
\* performance.now() when play is joined: the page has been open for a while
StartTimes == {5000}
\* SpecWeapons: a frame follows the last after 100 ms, or after 3000 ms when
\* the page was hidden in between (no animation frames, the clock runs on)
WeaponSteps == {100, 3000}
FireGestures == {"IDLE", "FIRE_PRIMARY", "FIRE_SECONDARY"}
WeaponEnergies == {100, 30, 3}          \* ship energy at the start (units)
EnemyDistances == {50, 100, 150, 250, 300, 400, 500, 900}
EnemyDamage == {0, 25}                  \* damage an enemy takes in a frame
\* what the camera shows of a hand: fist, open palm, pointing, pinch,
\* two fingers up, open pinch, closed pinch
HandShapes ==
    { [ index |-> FALSE, middle |-> FALSE, ring |-> FALSE, pinky |-> FALSE,
        thumb |-> FALSE, pinch |-> FALSE ],
      [ index |-> TRUE, middle |-> TRUE, ring |-> TRUE, pinky |-> TRUE,
        thumb |-> TRUE, pinch |-> FALSE ],
      [ index |-> TRUE, middle |-> FALSE, ring |-> FALSE, pinky |-> FALSE,
        thumb |-> FALSE, pinch |-> FALSE ],
      [ index |-> FALSE, middle |-> TRUE, ring |-> TRUE, pinky |-> TRUE,
        thumb |-> FALSE, pinch |-> TRUE ],
      [ index |-> TRUE, middle |-> TRUE, ring |-> FALSE, pinky |-> FALSE,
        thumb |-> FALSE, pinch |-> FALSE ],
      [ index |-> TRUE, middle |-> TRUE, ring |-> TRUE, pinky |-> TRUE,
        thumb |-> TRUE, pinch |-> TRUE ],
      [ index |-> FALSE, middle |-> FALSE, ring |-> FALSE, pinky |-> FALSE,
        thumb |-> FALSE, pinch |-> TRUE ] }
LeftPalmX == {0, 10, 15, 20, 25, 30, 40}    \* palm centre x of the left hand
RightPalmX == {50}                      \* palm centre x of the right hand
\* SpecAim: where the right hand's palm centre and index tip are seen
AimPoints == { [x |-> 0, y |-> 100], [x |-> 37, y |-> 50], [x |-> 100, y |-> 3] }
AimShapes == { sh \in HandShapes : ~sh.pinch /\ (sh.ring = sh.middle) }
\* Math.random() outcomes in tenths, by draw: all 0.0, or 0.0 and 0.7 in turn
Draws == 1..(MaxConfigWave + 5)         \* the draws one list of enemies uses
\* SpecConfig: Math.random() outcomes in tenths, by draw
ConfigRolls ==
    { [i \in Draws |-> 0], [i \in Draws |-> (3 * i) % 10] }
ConfigDeltas == {0, 2000}               \* deltaTime of a WaveManager.update
ConfigDamage == {40}                    \* damage of a hit between two updates
RollChoices == { [i \in Draws |-> 0], [i \in Draws |-> IF i % 2 = 1 THEN 0 ELSE 7] }

----------------------------------------------------------------------------
(* Program constants *)

K == 1000               \* thousandths per unit (dt = deltaTime * 0.001)
maxHull == 100
maxShield == 100
maxEnergy == 100
energyRegen == 10       \* per second
shieldRegen == 5        \* per second
boostMinEnergy == 20
boostDrain == 30        \* per second
rollCost == 20
rollDuration == 500     \* ms
shieldMinEnergy == 10
shieldDrain == 5        \* per drain tick
drainInterval == 100    \* ms
shieldDuration == 3000  \* ms
railgunDamage == 25
waveDelay == 3000       \* ms between a completed wave and the next
MaxDelta == 100         \* ms, the cap of Game.deltaTime

Min(a, b) == IF a < b THEN a ELSE b
Latest(S) == CHOOSE x \in S : \A y \in S : y <= x
Max(a, b) == IF a > b THEN a ELSE b
RemoveAt(seq, i) == SubSeq(seq, 1, i - 1) \o SubSeq(seq, i + 1, Len(seq))

----------------------------------------------------------------------------
(* Aurelian (js/ship/aurelian.js) *)

NoRoll == -1

ShipInit ==
    [ hull |-> maxHull * K, shield |-> maxShield * K, energy |-> maxEnergy * K,
      isInvulnerable |-> FALSE, shieldActive |-> FALSE,
      isBoosting |-> FALSE,
      rollStart |-> NoRoll ]      \* startTime of the pending roll animation

\* boost(dt): only the energy it consumes; velocity is not part of the model
boost(s, dt) == [s EXCEPT !.energy = @ - boostDrain * dt]

\* barrelRoll(): the flag, the energy, and the animation it starts at t
barrelRoll(s, t) ==
    IF s.isInvulnerable THEN s
    ELSE IF s.energy < rollCost * K THEN s
    ELSE [s EXCEPT !.isInvulnerable = TRUE,
                   !.energy = @ - rollCost * K,
                   !.rollStart = t]

\* variant of rollAnimate: the animation ends at its first frame
rollAnimate_mut(s, t) ==
    IF s.rollStart = NoRoll THEN s
    ELSE [s EXCEPT !.isInvulnerable = FALSE, !.rollStart = NoRoll]

\* the animate() callback of barrelRoll, run on an animation frame at t
rollAnimate(s, t) ==
    IF s.rollStart = NoRoll THEN s
    ELSE IF t - s.rollStart < rollDuration THEN s     \* progress < 1
    ELSE [s EXCEPT !.isInvulnerable = FALSE, !.rollStart = NoRoll]

\* the guards of activateShield()
shieldStarts(s) == ~s.shieldActive /\ ~(s.energy < shieldMinEnergy * K)

deactivateShield(s) == [s EXCEPT !.shieldActive = FALSE]

\* activateShield(): the flag; its timers are made by newShieldTimers
activateShield(s) ==
    IF shieldStarts(s) THEN [s EXCEPT !.shieldActive = TRUE] ELSE s

\* the interval and the timeout activateShield() creates at time t
newShieldTimers(timers, t) ==
    Append(timers, [ interval |-> TRUE, nextDrain |-> t + drainInterval,
                     timeoutAt |-> t + shieldDuration ])

processGesture(s, gesture, dt, t) ==
    LET s0 == [s EXCEPT !.isBoosting = FALSE] IN
    CASE gesture = "BOOST" ->
            IF s0.energy > boostMinEnergy * K
            THEN boost([s0 EXCEPT !.isBoosting = TRUE], dt)
            ELSE s0
      [] gesture = "BARREL_ROLL" -> barrelRoll(s0, t)
      [] gesture = "SHIELD" -> activateShield(s0)
      [] OTHER -> s0

\* update(deltaTime, gesture, aimPosition): gesture, then the regeneration
ShipUpdate(s, dt, gesture, t) ==
    LET s1 == processGesture(s, gesture, dt, t)
        s2 == [s1 EXCEPT !.energy = Min(maxEnergy * K, @ + energyRegen * dt)]
    IN  IF s2.shield < maxShield * K
        THEN [s2 EXCEPT !.shield = Min(maxShield * K, @ + shieldRegen * dt)]
        ELSE s2

\* variant of takeDamage: the hull takes the whole amount
takeDamage_mut(s, amount) ==
    IF s.isInvulnerable THEN [ship |-> s, ret |-> "undefined"]
    ELSE
        LET shieldDamage == IF s.shield > 0 THEN Min(s.shield, amount) ELSE 0
            s1 == [s EXCEPT !.shield = @ - shieldDamage]
            s2 == IF amount > 0 THEN [s1 EXCEPT !.hull = @ - amount] ELSE s1
        IN  [ship |-> s2, ret |-> IF s2.hull <= 0 THEN "true" ELSE "false"]

\* takeDamage(amount): the ship after it, and the value returned
takeDamage(s, amount) ==
    IF s.isInvulnerable THEN [ship |-> s, ret |-> "undefined"]
    ELSE
        LET shieldDamage == IF s.shield > 0 THEN Min(s.shield, amount) ELSE 0
            s1 == [s EXCEPT !.shield = @ - shieldDamage]
            rest == amount - shieldDamage
            s2 == IF rest > 0 THEN [s1 EXCEPT !.hull = @ - rest] ELSE s1
        IN  [ship |-> s2, ret |-> IF s2.hull <= 0 THEN "true" ELSE "false"]


----------------------------------------------------------------------------
(* Enemy (js/combat/enemyAI.js): the stat templates *)

EnemyStats(type) ==
    CASE type = "vanguard" ->
            [ health |-> 80, maxHealth |-> 80, damage |-> 20,
              attackRange |-> 100, attackCooldown |-> 2000,
              retreatThreshold |-> 10 ]      \* thresholds in hundredths
      [] type = "coward" ->
            [ health |-> 40, maxHealth |-> 40, damage |-> 10,
              attackRange |-> 400, attackCooldown |-> 800,
              retreatThreshold |-> 50 ]
      [] OTHER ->                            \* hunter, and stats.hunter default
            [ health |-> 60, maxHealth |-> 60, damage |-> 15,
              attackRange |-> 300, attackCooldown |-> 1000,
              retreatThreshold |-> 30 ]

----------------------------------------------------------------------------
(* WaveManager (combat/waveManager.js) *)

\* no gameLoop callback is registered and no frame has run
LoopInit == [ pending |-> 0, updates |-> 0 ]

LoopSteps == {16, 100}  \* ms between two display frames

NoWave == 0             \* startWave() called without a wave number
\* SpecConfig: the wave numbers startWave is called with
ConfigWaves == {NoWave, 5, 10, 20, 21}

\* generateNormalWaveEnemies(wave, count); draw i is roll[i] tenths
generateNormalWaveEnemies(wave, count, roll) ==
    [ i \in 1..count |->
        IF wave < 3 THEN (IF roll[i] < 7 THEN "coward" ELSE "hunter")
        ELSE IF wave < 7
             THEN (IF roll[i] < 3 THEN "coward"
                   ELSE IF roll[i] < 7 THEN "hunter" ELSE "vanguard")
             ELSE (IF roll[i] < 2 THEN "coward"
                   ELSE IF roll[i] < 5 THEN "hunter" ELSE "vanguard") ]

Swap(seq, a, b) == [seq EXCEPT ![a] = seq[b], ![b] = seq[a]]

\* variant of shuffleFrom: position i takes the entry of position j, which
\* keeps its own
RECURSIVE shuffleFrom_mut(_, _, _)
shuffleFrom_mut(enemies, i, roll) ==
    IF i <= 1 THEN enemies
    ELSE LET j == ((roll[i] * i) \div 10) + 1
         IN  shuffleFrom_mut([enemies EXCEPT ![i] = enemies[j]], i - 1, roll)

\* the shuffle loop of generateBossWaveEnemies, from 1-based position i down
RECURSIVE shuffleFrom(_, _, _)
shuffleFrom(enemies, i, roll) ==
    IF i <= 1 THEN enemies
    ELSE LET j == ((roll[i] * i) \div 10) + 1     \* floor(random * (i + 1))
         IN  shuffleFrom(Swap(enemies, i, j), i - 1, roll)

generateBossWaveEnemies(wave, count, roll) ==
    LET vanguardCount == (count * 5) \div 10
        hunterCount == (count * 3) \div 10
        enemies == [ i \in 1..count |->
                       IF i <= vanguardCount THEN "vanguard"
                       ELSE IF i <= vanguardCount + hunterCount THEN "hunter"
                       ELSE "coward" ]
    IN  shuffleFrom(enemies, count, roll)

\* one entry of generateWaveConfigs(), or the endless-mode entry of startWave
WaveConfig(i, roll) ==
    IF i >= 1 /\ i <= 20
    THEN LET baseCount == 3 + ((i * 8) \div 10) IN
         [ wave |-> i,
           enemies |-> IF i % 5 = 0
                       THEN generateBossWaveEnemies(i, baseCount, roll)
                       ELSE generateNormalWaveEnemies(i, baseCount, roll),
           spawnDelay |-> Max(500, 2000 - i * 75),
           bossWave |-> (i % 5 = 0) ]
    ELSE [ wave |-> i,
           enemies |-> generateNormalWaveEnemies(i, 5 + i, roll),
           spawnDelay |-> 500,
           bossWave |-> (i % 5 = 0) ]

\* generateWaveConfigs(): the table of the 20 precomputed waves
generateWaveConfigs(roll) == [ i \in 1..20 |-> WaveConfig(i, roll) ]

\* new WaveManager(scene), its table drawn with roll
WaveManagerInit(roll) ==
    [ currentWave |-> 0, enemiesRemaining |-> 0,
      enemiesToSpawn |-> <<>>,           \* undefined until the first startWave
      timeSinceLastSpawn |-> 0, spawnDelay |-> 2000, totalKills |-> 0,
      waveConfigs |-> generateWaveConfigs(roll) ]

\* variant of startWave: the spawn timer starts at 0
startWave_mut(w, waveNumber, roll) ==
    LET cw == IF waveNumber # NoWave THEN waveNumber ELSE w.currentWave + 1
        config == IF cw \in DOMAIN w.waveConfigs THEN w.waveConfigs[cw]
                  ELSE WaveConfig(cw, roll)
    IN  [w EXCEPT !.currentWave = cw,
                  !.enemiesRemaining = Len(config.enemies),
                  !.enemiesToSpawn = config.enemies,
                  !.spawnDelay = config.spawnDelay,
                  !.timeSinceLastSpawn = 0]

\* startWave(waveNumber)
startWave(w, waveNumber, roll) ==
    LET cw == IF waveNumber # NoWave THEN waveNumber ELSE w.currentWave + 1
        \* this.waveConfigs[currentWave - 1], or the endless-mode entry
        config == IF cw \in DOMAIN w.waveConfigs THEN w.waveConfigs[cw]
                  ELSE WaveConfig(cw, roll)
    IN  [w EXCEPT !.currentWave = cw,
                  !.enemiesRemaining = Len(config.enemies),
                  !.enemiesToSpawn = config.enemies,
                  !.spawnDelay = config.spawnDelay,
                  !.timeSinceLastSpawn = config.spawnDelay]

\* spawnEnemy(type, position): the new Enemy; wave records the current wave
spawnEnemy(type, wave) ==
    [ type |-> type, health |-> EnemyStats(type).health, wave |-> wave ]

isWaveComplete(w) == w.enemiesRemaining <= 0 /\ Len(w.enemiesToSpawn) = 0

\* Enemy.takeDamage(amount) on the i-th active enemy (0: nobody is hit)
damageEnemy(enemies, i, amount) ==
    IF i = 0 THEN enemies ELSE [enemies EXCEPT ![i].health = @ - amount]

\* the spawn step of WaveManager.update
\* the spawn step with the spawned enemy left in the queue
spawnStep_mut(w, enemies, dt) ==
    IF Len(w.enemiesToSpawn) > 0
    THEN LET t == w.timeSinceLastSpawn + dt IN
         IF t >= w.spawnDelay
         THEN [ wm |-> [w EXCEPT !.timeSinceLastSpawn = 0],
                enemies |-> Append(enemies,
                                   spawnEnemy(Head(w.enemiesToSpawn),
                                              w.currentWave)) ]
         ELSE [ wm |-> [w EXCEPT !.timeSinceLastSpawn = t],
                enemies |-> enemies ]
    ELSE [ wm |-> w, enemies |-> enemies ]

spawnStep(w, enemies, dt) ==
    IF Len(w.enemiesToSpawn) > 0
    THEN LET t == w.timeSinceLastSpawn + dt IN
         IF t >= w.spawnDelay
         THEN [ wm |-> [w EXCEPT !.enemiesToSpawn = Tail(@),
                                 !.timeSinceLastSpawn = 0],
                enemies |-> Append(enemies,
                                   spawnEnemy(Head(w.enemiesToSpawn),
                                              w.currentWave)) ]
         ELSE [ wm |-> [w EXCEPT !.timeSinceLastSpawn = t],
                enemies |-> enemies ]
    ELSE [ wm |-> w, enemies |-> enemies ]

\* the enemy loop of WaveManager.update: dead enemies leave the roster
\* removeDead with a dead enemy taken to be one below zero health
RECURSIVE removeDead_mut(_, _, _)
removeDead_mut(w, enemies, i) ==
    IF i < 1 THEN [ wm |-> w, enemies |-> enemies, killed |-> <<>> ]
    ELSE IF enemies[i].health < 0
         THEN LET rest == removeDead_mut([w EXCEPT !.enemiesRemaining = @ - 1,
                                                   !.totalKills = @ + 1],
                                         RemoveAt(enemies, i), i - 1)
              IN  [rest EXCEPT !.killed = <<enemies[i].type>> \o @]
         ELSE removeDead_mut(w, enemies, i - 1)

RECURSIVE removeDead(_, _, _)
removeDead(w, enemies, i) ==
    IF i < 1 THEN [ wm |-> w, enemies |-> enemies, killed |-> <<>> ]
    ELSE IF enemies[i].health <= 0
         THEN LET rest == removeDead([w EXCEPT !.enemiesRemaining = @ - 1,
                                               !.totalKills = @ + 1],
                                     RemoveAt(enemies, i), i - 1)
              IN  [rest EXCEPT !.killed = <<enemies[i].type>> \o @]
         ELSE removeDead(w, enemies, i - 1)

\* WaveManager.update(deltaTime, player, weapons): spawn, enemy loop, and
\* whether onWaveComplete was invoked
WaveUpdate(w, enemies, dt) ==
    LET a == spawnStep(w, enemies, dt)
        b == removeDead(a.wm, a.enemies, Len(a.enemies))
    IN  [ wm |-> b.wm, enemies |-> b.enemies, killed |-> b.killed,
          completed |-> isWaveComplete(b.wm) ]

----------------------------------------------------------------------------
(* Weapons (js/ship/weapons.js).  Positions are distances along the ship's *)
(* forward axis; the ship holds its position at 0.                         *)

WeaponNames == {"railgun", "laser", "harpoon"}

Undefined == -1         \* a property never assigned (weapons.laser.lastFired)
NoEnemy == 0            \* attachedTo: null
muzzleOffset == 50      \* projectiles start this far ahead of the ship
hitRadius == 30         \* Enemy.hitRadius
pullSpeed == 100        \* per second, the harpoon's pull on its enemy
AimOne == 100           \* 1.0 of the camera frame, in hundredths
smoothingFactor == 50   \* HandTracker.smoothingFactor 0.5, in hundredths
laserMinEnergy == 5     \* toggleLaser(true) needs this much energy
maxRange == 500         \* weapons.laser.maxRange

WeaponStats(name) ==
    CASE name = "railgun" ->
            [ damage |-> railgunDamage, cooldown |-> 200, energyCost |-> 5,
              projectileSpeed |-> 2000, lifetime |-> 3000 ]
      [] name = "laser" ->
            [ damage |-> 5, cooldown |-> 0, energyCost |-> 15,
              projectileSpeed |-> 0, lifetime |-> 0 ]
      [] name = "harpoon" ->
            [ damage |-> 10, cooldown |-> 3000, energyCost |-> 30,
              projectileSpeed |-> 800, lifetime |-> 5000 ]

WeaponsInit ==
    [ currentWeapon |-> "railgun",
      lastFired |-> [ railgun |-> 0, laser |-> Undefined, harpoon |-> 0 ],
      laserActive |-> FALSE, activeBeam |-> FALSE, fault |-> FALSE ]

Abs(x) == IF x < 0 THEN -x ELSE x
Sign(x) == IF x < 0 THEN -1 ELSE IF x > 0 THEN 1 ELSE 0

\* now - weapon.lastFired < weapon.cooldown; with lastFired undefined the
\* difference is NaN and the comparison is false
cooldownRunning(w, name, t) ==
    /\ w.lastFired[name] # Undefined
    /\ t - w.lastFired[name] < WeaponStats(name).cooldown

\* fireRailgun(): the projectile pushed to Weapons.projectiles
fireRailgun(t) == [ created |-> t, pos |-> muzzleOffset ]

\* fireHarpoon(): the harpoon pushed to Weapons.harpoons; followed records
\* the enemy whose mesh the harpoon copied its position from in the last update
fireHarpoon(t) ==
    [ created |-> t, pos |-> muzzleOffset, attached |-> FALSE,
      attachedTo |-> NoEnemy, followed |-> NoEnemy ]

\* variant of firePrimary: the cooldown is not looked at
firePrimary_mut(w, s, projs, harps, t) ==
    LET name == w.currentWeapon
        stats == WeaponStats(name)
    IN  IF s.energy < stats.energyCost * K
        THEN [ weapons |-> w, ship |-> s, projectiles |-> projs,
               harpoons |-> harps, result |-> FALSE ]
        ELSE [ weapons |-> [w EXCEPT !.lastFired[name] = t],
               ship |-> [s EXCEPT !.energy = @ - stats.energyCost * K],
               projectiles |-> IF name = "railgun"
                               THEN Append(projs, fireRailgun(t)) ELSE projs,
               harpoons |-> IF name = "harpoon"
                            THEN Append(harps, fireHarpoon(t)) ELSE harps,
               result |-> TRUE ]

\* firePrimary() at time t: the weapon system, the ship and the in-flight
\* lists after the call, and the value returned
firePrimary(w, s, projs, harps, t) ==
    LET name == w.currentWeapon
        stats == WeaponStats(name)
    IN  IF cooldownRunning(w, name, t)
        THEN [ weapons |-> w, ship |-> s, projectiles |-> projs,
               harpoons |-> harps, result |-> FALSE ]
        ELSE IF s.energy < stats.energyCost * K
        THEN [ weapons |-> w, ship |-> s, projectiles |-> projs,
               harpoons |-> harps, result |-> FALSE ]
        ELSE [ weapons |-> [w EXCEPT !.lastFired[name] = t],
               ship |-> [s EXCEPT !.energy = @ - stats.energyCost * K],
               \* the switch has a case for the railgun and for the harpoon
               projectiles |-> IF name = "railgun"
                               THEN Append(projs, fireRailgun(t)) ELSE projs,
               harpoons |-> IF name = "harpoon"
                            THEN Append(harps, fireHarpoon(t)) ELSE harps,
               result |-> TRUE ]

\* toggleLaser(false): an active laser is switched off and destroyBeam()
\* drops the beam
stopLaser(w) ==
    IF w.laserActive
    THEN [w EXCEPT !.laserActive = FALSE, !.activeBeam = FALSE]
    ELSE w

\* toggleLaser(active); createBeam() leaves an existing beam alone
toggleLaser(w, s, active) ==
    IF active
    THEN IF w.laserActive \/ s.energy < laserMinEnergy * K
         THEN w
         ELSE [w EXCEPT !.laserActive = TRUE, !.activeBeam = TRUE]
    ELSE stopLaser(w)

\* selectWeapon(weaponName); toggleLaser(false) when the laser is left
selectWeapon(w, name) ==
    IF name \in WeaponNames
    THEN [(IF w.currentWeapon = "laser" THEN stopLaser(w) ELSE w)
             EXCEPT !.currentWeapon = name]
    ELSE w

\* cleanup(), as far as the weapon record goes: destroyBeam(); laser.active
\* is not touched
cleanup(w) == [w EXCEPT !.activeBeam = FALSE]

\* the ray cast of updateBeam: the enemy the loop ends on (0: none).  The
\* beam starts muzzleOffset ahead of the ship; an enemy is taken when its
\* forward projection is positive, below maxRange and below the best so far
\* and its distance x from the axis is below its hit radius.
beamTarget(enemies, mesh) ==
    LET dot(e) == mesh[enemies[e].id] - muzzleOffset
        cand == { e \in 1..Len(enemies) :
                    /\ dot(e) > 0 /\ dot(e) < maxRange
                    /\ Abs(enemies[e].x) < hitRadius }
    IN  IF cand = {} THEN 0
        ELSE CHOOSE e \in cand :
                \A f \in cand : dot(e) < dot(f) \/ (dot(e) = dot(f) /\ e <= f)

\* updateBeam(dt, enemies), dt in ms.  createBeam() stores the impact marker
\* in userData.impact and then replaces userData by a new object without it
\* (weapons.js 295-305), so updateBeam reads impact as undefined: both
\* impact.visible = true (468), which stands before hitEnemy.takeDamage, and
\* impact.visible = false (479) throw a TypeError.
updateBeam(w, s, enemies, mesh, dt) ==
    IF ~w.activeBeam \/ ~w.laserActive
    THEN [ weapons |-> [w EXCEPT !.fault = FALSE], ship |-> s,
           enemies |-> enemies, target |-> 0 ]
    ELSE LET s1 == [s EXCEPT !.energy = @ - WeaponStats("laser").energyCost * dt]
         IN  IF s1.energy <= 0
             THEN [ weapons |-> [stopLaser(w) EXCEPT !.fault = FALSE],
                    ship |-> s1, enemies |-> enemies, target |-> 0 ]
             ELSE [ weapons |-> [w EXCEPT !.fault = TRUE], ship |-> s1,
                    enemies |-> enemies,
                    target |-> beamTarget(enemies, mesh) ]

\* the first enemy of the list whose mesh is within its hit radius of pos
\* (0: none)
firstHit(pos, enemies, mesh) ==
    LET near == { e \in 1..Len(enemies) :
                    Abs(pos - mesh[enemies[e].id]) < hitRadius }
    IN  IF near = {} THEN 0
        ELSE CHOOSE e \in near : \A f \in near : e <= f

\* updateProjectiles(dt, now, enemies), from the i-th projectile down
RECURSIVE updateProjectiles(_, _, _, _, _, _)
updateProjectiles(projs, enemies, mesh, i, dt, t) ==
    IF i < 1 THEN [ projectiles |-> projs, enemies |-> enemies ]
    ELSE
        LET stats == WeaponStats("railgun")
            p == [projs[i] EXCEPT !.pos = @ + (stats.projectileSpeed * dt) \div 1000]
            e == firstHit(p.pos, enemies, mesh)
        IN  IF t - p.created > stats.lifetime
            THEN updateProjectiles(RemoveAt(projs, i), enemies, mesh, i - 1, dt, t)
            ELSE IF e # 0
            THEN updateProjectiles(RemoveAt(projs, i),
                                   damageEnemy(enemies, e, stats.damage),
                                   mesh, i - 1, dt, t)
            ELSE updateProjectiles([projs EXCEPT ![i] = p], enemies, mesh,
                                   i - 1, dt, t)

\* updateHarpoons(dt, now, enemies), from the i-th harpoon down
RECURSIVE updateHarpoons(_, _, _, _, _, _)
updateHarpoons(harps, enemies, mesh, i, dt, t) ==
    IF i < 1 THEN [ harpoons |-> harps, enemies |-> enemies, meshes |-> mesh ]
    ELSE
        LET stats == WeaponStats("harpoon")
            h == harps[i]
        IN  IF t - h.created > stats.lifetime
            THEN updateHarpoons(RemoveAt(harps, i), enemies, mesh, i - 1, dt, t)
            ELSE IF ~h.attached
            THEN LET p == h.pos + (stats.projectileSpeed * dt) \div 1000
                     e == firstHit(p, enemies, mesh)
                 IN  IF e # 0
                     THEN updateHarpoons(
                            [harps EXCEPT ![i] =
                               [h EXCEPT !.pos = p, !.attached = TRUE,
                                         !.attachedTo = enemies[e].id,
                                         !.followed = NoEnemy]],
                            damageEnemy(enemies, e, stats.damage),
                            mesh, i - 1, dt, t)
                     ELSE updateHarpoons(
                            [harps EXCEPT ![i] =
                               [h EXCEPT !.pos = p, !.followed = NoEnemy]],
                            enemies, mesh, i - 1, dt, t)
            \* data.attachedTo && data.attachedTo.mesh: a mesh is never unset
            ELSE IF h.attachedTo # NoEnemy /\ h.attachedTo \in DOMAIN mesh
            THEN LET m == mesh[h.attachedTo] IN
                 updateHarpoons(
                    [harps EXCEPT ![i] =
                       [h EXCEPT !.pos = m, !.followed = h.attachedTo]],
                    enemies,
                    [mesh EXCEPT ![h.attachedTo] =
                       m - Sign(m) * ((pullSpeed * dt) \div 1000)],
                    i - 1, dt, t)
            ELSE updateHarpoons(
                    [harps EXCEPT ![i] = [h EXCEPT !.followed = NoEnemy]],
                    enemies, mesh, i - 1, dt, t)

\* Weapons.update(deltaTime, enemies); no beam is active
WeaponsUpdate(projs, harps, enemies, mesh, dt, t) ==
    LET a == updateProjectiles(projs, enemies, mesh, Len(projs), dt, t)
        b == updateHarpoons(harps, a.enemies, mesh, Len(harps), dt, t)
    IN  [ projectiles |-> a.projectiles, harpoons |-> b.harpoons,
          enemies |-> b.enemies, meshes |-> b.meshes ]

\* the ids of the enemies in a roster
RosterIds(enemies) == { enemies[e].id : e \in 1..Len(enemies) }

----------------------------------------------------------------------------
(* Enemy (js/combat/enemyAI.js): the state machine and the attack *)

EnemyTypes == {"vanguard", "hunter", "coward"}
AttackStates == {"strafe", "snipe", "ram", "kamikaze"}

\* new Enemy(scene, type, position), at distance dist from the player
NewEnemy(type, dist) ==
    [ type |-> type, health |-> EnemyStats(type).health, state |-> "idle",
      hasTarget |-> FALSE, lastAttack |-> 0, distance |-> dist,
      inRoster |-> TRUE ]

\* healthPercent < retreatThreshold
hurt(e) == e.health * 100 < EnemyStats(e.type).retreatThreshold * EnemyStats(e.type).maxHealth

updateVanguardAI(e) ==
    IF hurt(e) THEN "kamikaze"
    ELSE IF e.distance < EnemyStats(e.type).attackRange THEN "ram"
    ELSE IF e.distance < 800 THEN "charge"
    ELSE "pursue"

\* variant of updateHunterAI: the attack range is looked at before the
\* evade distance
updateHunterAI_mut(e) ==
    IF hurt(e) THEN "retreat"
    ELSE IF e.distance < EnemyStats(e.type).attackRange THEN "strafe"
    ELSE IF e.distance < 150 THEN "evade"
    ELSE IF e.distance < 600 THEN "flank"
    ELSE "pursue"

updateHunterAI(e) ==
    IF hurt(e) THEN "retreat"
    ELSE IF e.distance < 150 THEN "evade"
    ELSE IF e.distance < EnemyStats(e.type).attackRange THEN "strafe"
    ELSE IF e.distance < 600 THEN "flank"
    ELSE "pursue"

updateCowardAI(e) ==
    IF hurt(e) THEN "flee"
    ELSE IF e.distance < 200 THEN "flee"
    ELSE IF e.distance < EnemyStats(e.type).attackRange THEN "snipe"
    ELSE IF e.distance < 800 THEN "approach"
    ELSE "idle"

updateAI(e) ==
    IF ~e.hasTarget THEN e
    ELSE [e EXCEPT !.state =
            CASE e.type = "vanguard" -> updateVanguardAI(e)
              [] e.type = "hunter" -> updateHunterAI(e)
              [] e.type = "coward" -> updateCowardAI(e)
              [] OTHER -> e.state]

\* Enemy.update(deltaTime, player): the target, the state machine, and the
\* movement, which leaves the enemy at distance dist
EnemyUpdate(e, dist) ==
    [updateAI([e EXCEPT !.hasTarget = TRUE]) EXCEPT !.distance = dist]

\* variant of canAttack: the cooldown is not looked at
canAttack_mut(e, t) ==
    /\ e.hasTarget
    /\ ~(e.distance > EnemyStats(e.type).attackRange)
    /\ e.state \in AttackStates

\* canAttack() at time t
canAttack(e, t) ==
    /\ e.hasTarget
    /\ ~(t - e.lastAttack < EnemyStats(e.type).attackCooldown)
    /\ ~(e.distance > EnemyStats(e.type).attackRange)
    /\ e.state \in AttackStates

\* attack() at time t: the enemy after it, and whether attack data came back
attack(e, t) ==
    IF ~canAttack(e, t) THEN [ enemy |-> e, data |-> FALSE ]
    ELSE [ enemy |-> [e EXCEPT !.lastAttack = t], data |-> TRUE ]

----------------------------------------------------------------------------
(* HandTracker (js/handTracking.js).  Coordinates are in hundredths of the *)
(* camera frame.                                                           *)

NoHand ==
    [ present |-> FALSE, isPinching |-> FALSE, isFist |-> FALSE,
      isOpenPalm |-> FALSE, isPointing |-> FALSE, palmX |-> 0, palmY |-> 0,
      tipX |-> 0, tipY |-> 0 ]

\* analyzeHand(landmarks); the landmarks are given by what the code reads off
\* them: the extended fingers, the pinch and the palm centre
analyzeHand(lm) ==
    LET extendedFingers ==
            Cardinality({ f \in {"index", "middle", "ring", "pinky"} : lm[f] })
    IN  [ present |-> TRUE,
          isPinching |-> lm.pinch,
          isFist |-> extendedFingers = 0 /\ ~lm.thumb,
          isOpenPalm |-> extendedFingers >= 3 /\ lm.thumb,
          isPointing |-> lm.index /\ ~lm.middle /\ ~lm.ring /\ ~lm.pinky,
          palmX |-> lm.x, palmY |-> lm.y,
          tipX |-> lm.tipX, tipY |-> lm.tipY ]

\* variant of detectGesture: the right hand is looked at before the
\* two-hand conditions
detectGesture_rightFirst(l, r) ==
    LET handDistance == Abs(l.palmX - r.palmX)
        both == l.present /\ r.present
    IN  IF r.present /\ r.isPinching
        THEN [ gesture |-> "FIRE_PRIMARY", atEnd |-> FALSE ]
        ELSE IF r.present /\ r.isFist
        THEN [ gesture |-> "BRAKE", atEnd |-> FALSE ]
        ELSE IF r.present /\ r.isOpenPalm
        THEN [ gesture |-> "THRUST", atEnd |-> FALSE ]
        ELSE IF r.present /\ r.isPointing
        THEN [ gesture |-> "AIM", atEnd |-> FALSE ]
        ELSE IF both /\ handDistance > 40 /\ l.isOpenPalm /\ r.isOpenPalm
        THEN [ gesture |-> "BARREL_ROLL", atEnd |-> FALSE ]
        ELSE IF both /\ handDistance < 30 /\ l.isOpenPalm /\ r.isOpenPalm
        THEN [ gesture |-> "BOOST", atEnd |-> FALSE ]
        ELSE IF both /\ handDistance < 20 /\ l.isFist /\ r.isFist
        THEN [ gesture |-> "SHIELD", atEnd |-> FALSE ]
        ELSE IF l.present /\ l.isPinching
        THEN [ gesture |-> "FIRE_SECONDARY", atEnd |-> FALSE ]
        ELSE [ gesture |-> "IDLE", atEnd |-> TRUE ]

\* variant of detectGesture: the left hand's pinch is looked at before the
\* right hand
detectGesture_leftFirst(l, r) ==
    LET handDistance == Abs(l.palmX - r.palmX)
        both == l.present /\ r.present
    IN  IF both /\ handDistance > 40 /\ l.isOpenPalm /\ r.isOpenPalm
        THEN [ gesture |-> "BARREL_ROLL", atEnd |-> FALSE ]
        ELSE IF both /\ handDistance < 30 /\ l.isOpenPalm /\ r.isOpenPalm
        THEN [ gesture |-> "BOOST", atEnd |-> FALSE ]
        ELSE IF both /\ handDistance < 20 /\ l.isFist /\ r.isFist
        THEN [ gesture |-> "SHIELD", atEnd |-> FALSE ]
        ELSE IF l.present /\ l.isPinching
        THEN [ gesture |-> "FIRE_SECONDARY", atEnd |-> FALSE ]
        ELSE IF r.present /\ r.isPinching
        THEN [ gesture |-> "FIRE_PRIMARY", atEnd |-> FALSE ]
        ELSE IF r.present /\ r.isFist
        THEN [ gesture |-> "BRAKE", atEnd |-> FALSE ]
        ELSE IF r.present /\ r.isOpenPalm
        THEN [ gesture |-> "THRUST", atEnd |-> FALSE ]
        ELSE IF r.present /\ r.isPointing
        THEN [ gesture |-> "AIM", atEnd |-> FALSE ]
        ELSE [ gesture |-> "IDLE", atEnd |-> TRUE ]

\* variant of detectGesture: without a match the gesture stays as it was
detectGesture_keep(l, r) ==
    LET handDistance == Abs(l.palmX - r.palmX)
        both == l.present /\ r.present
    IN  IF both /\ handDistance > 40 /\ l.isOpenPalm /\ r.isOpenPalm
        THEN [ gesture |-> "BARREL_ROLL", atEnd |-> FALSE ]
        ELSE IF both /\ handDistance < 30 /\ l.isOpenPalm /\ r.isOpenPalm
        THEN [ gesture |-> "BOOST", atEnd |-> FALSE ]
        ELSE IF both /\ handDistance < 20 /\ l.isFist /\ r.isFist
        THEN [ gesture |-> "SHIELD", atEnd |-> FALSE ]
        ELSE IF r.present /\ r.isPinching
        THEN [ gesture |-> "FIRE_PRIMARY", atEnd |-> FALSE ]
        ELSE IF r.present /\ r.isFist
        THEN [ gesture |-> "BRAKE", atEnd |-> FALSE ]
        ELSE IF r.present /\ r.isOpenPalm
        THEN [ gesture |-> "THRUST", atEnd |-> FALSE ]
        ELSE IF r.present /\ r.isPointing
        THEN [ gesture |-> "AIM", atEnd |-> FALSE ]
        ELSE IF l.present /\ l.isPinching
        THEN [ gesture |-> "FIRE_SECONDARY", atEnd |-> FALSE ]
        ELSE [ gesture |-> currentGesture, atEnd |-> TRUE ]

\* detectGesture(): the gesture, and whether the call got as far as the
\* notification at its end (every gesture but IDLE returns before it)
detectGesture(l, r) ==
    LET handDistance == Abs(l.palmX - r.palmX)
        both == l.present /\ r.present
    IN  IF both /\ handDistance > 40 /\ l.isOpenPalm /\ r.isOpenPalm
        THEN [ gesture |-> "BARREL_ROLL", atEnd |-> FALSE ]
        ELSE IF both /\ handDistance < 30 /\ l.isOpenPalm /\ r.isOpenPalm
        THEN [ gesture |-> "BOOST", atEnd |-> FALSE ]
        ELSE IF both /\ handDistance < 20 /\ l.isFist /\ r.isFist
        THEN [ gesture |-> "SHIELD", atEnd |-> FALSE ]
        ELSE IF r.present /\ r.isPinching
        THEN [ gesture |-> "FIRE_PRIMARY", atEnd |-> FALSE ]
        ELSE IF r.present /\ r.isFist
        THEN [ gesture |-> "BRAKE", atEnd |-> FALSE ]
        ELSE IF r.present /\ r.isOpenPalm
        THEN [ gesture |-> "THRUST", atEnd |-> FALSE ]
        ELSE IF r.present /\ r.isPointing
        THEN [ gesture |-> "AIM", atEnd |-> FALSE ]
        ELSE IF l.present /\ l.isPinching
        THEN [ gesture |-> "FIRE_SECONDARY", atEnd |-> FALSE ]
        ELSE [ gesture |-> "IDLE", atEnd |-> TRUE ]

\* n / den rounded to the nearest integer, halves to the even one
RoundDiv(n, den) ==
    LET q == n \div den
        m == n % den
    IN  IF 2 * m < den THEN q
        ELSE IF 2 * m > den THEN q + 1
        ELSE IF q % 2 = 0 THEN q ELSE q + 1

\* smooth += (aim - smooth) * smoothingFactor, clamped to [0, 1]
smoothed(aim, smooth, factor) ==
    Max(0, Min(AimOne, RoundDiv(100 * smooth + (aim - smooth) * factor, 100)))

\* variant of updateAimPosition: the smoothing factor is 2
updateAimPosition_mut(aim, smooth, r) ==
    LET target ==
            IF ~r.present THEN aim
            ELSE IF r.isPointing
            THEN [ x |-> AimOne - r.tipX, y |-> r.tipY ]
            ELSE [ x |-> AimOne - r.palmX, y |-> r.palmY ]
    IN  [ aimPosition |-> target,
          smoothAimPosition |->
              [ x |-> smoothed(target.x, smooth.x, 200),
                y |-> smoothed(target.y, smooth.y, 200) ] ]

\* updateAimPosition(): the raw target is the mirrored palm centre of the
\* right hand, or its index tip when it points, and stays when there is no
\* right hand; the smoothed position goes a part of the way to it
updateAimPosition(aim, smooth, r) ==
    LET target ==
            IF ~r.present THEN aim
            ELSE IF r.isPointing
            THEN [ x |-> AimOne - r.tipX, y |-> r.tipY ]
            ELSE [ x |-> AimOne - r.palmX, y |-> r.palmY ]
    IN  [ aimPosition |-> target,
          smoothAimPosition |->
              [ x |-> smoothed(target.x, smooth.x, smoothingFactor),
                y |-> smoothed(target.y, smooth.y, smoothingFactor) ] ]

----------------------------------------------------------------------------
(* Timers and frames *)

timerDue(tm) == (tm.interval /\ tm.nextDrain <= now) \/ tm.timeoutAt <= now

WaveVarsInit ==
    /\ gameState = "menu"
    /\ isRunning = FALSE
    /\ frameDue = FALSE
    /\ loop = LoopInit
    /\ sessions = 0
    /\ rolls = [i \in Draws |-> 0]
    /\ wm = WaveManagerInit(rolls)
    /\ activeEnemies = <<>>
    /\ waveTransitioning = FALSE
    /\ waveTimers = <<>>
    /\ completeCalls = 0
    /\ killCalls = <<>>

WeaponVarsInit ==
    /\ pc = "idle"
    /\ deltaTime = 0
    /\ weapons = WeaponsInit
    /\ projectiles = <<>>
    /\ harpoons = <<>>
    /\ meshes = <<>>
    /\ fireResult = "none"
    /\ fireCalls = 0

EnemyVarsInit ==
    /\ enemy = NewEnemy("hunter", 900)
    /\ attackLog = <<>>

HandVarsInit ==
    /\ leftHand = NoHand
    /\ rightHand = NoHand
    /\ currentGesture = "IDLE"
    /\ previousGesture = "IDLE"
    /\ notified = <<>>
    /\ aimPosition = [ x |-> AimOne \div 2, y |-> AimOne \div 2 ]
    /\ smoothAimPosition = [ x |-> AimOne \div 2, y |-> AimOne \div 2 ]

Init ==
    /\ now = 0
    /\ lastTime = 0
    /\ ship = ShipInit
    /\ shieldTimers = <<>>
    /\ ret = "none"
    /\ hits = 0
    /\ WaveVarsInit
    /\ WeaponVarsInit
    /\ EnemyVarsInit
    /\ HandVarsInit

\* The wall clock advances to the next display frame; the callbacks due at
\* this one (timers, then the animation frame) have run.
Tick(maxTime, steps) ==
    /\ now < maxTime
    /\ lastTime = now
    /\ pc = "idle"
    /\ \A i \in 1..Len(shieldTimers) : ~timerDue(shieldTimers[i])
    /\ \E d \in steps : now' = now + d
    /\ UNCHANGED <<lastTime, ship, shieldTimers, ret, hits, waveVars, weaponVars, enemyVars,
                   handVars>>

\* setInterval callback of activateShield (aurelian.js 686-692)
ShieldDrainTick(i) ==
    /\ i \in 1..Len(shieldTimers)
    /\ shieldTimers[i].interval
    /\ shieldTimers[i].nextDrain <= now
    /\ LET s1 == [ship EXCEPT !.energy = @ - shieldDrain * K] IN
         IF s1.energy <= 0
         THEN /\ ship' = deactivateShield(s1)
              /\ shieldTimers' = [shieldTimers EXCEPT ![i].interval = FALSE]
         ELSE /\ ship' = s1
              /\ shieldTimers' =
                    [shieldTimers EXCEPT ![i].nextDrain = @ + drainInterval]
    /\ UNCHANGED <<now, lastTime, ret, hits, waveVars, weaponVars, enemyVars,
                   handVars>>

\* setTimeout callback of activateShield (aurelian.js 695-698)
ShieldTimeout(i) ==
    /\ i \in 1..Len(shieldTimers)
    /\ shieldTimers[i].timeoutAt <= now
    /\ ship' = deactivateShield(ship)
    /\ shieldTimers' = RemoveAt(shieldTimers, i)
    /\ UNCHANGED <<now, lastTime, ret, hits, waveVars, weaponVars, enemyVars,
                   handVars>>

\* One display frame of a playing game, as far as the ship is concerned:
\* the roll animation callback, then Game.gameLoop -> Game.update ->
\* Aurelian.update with the current gesture.
ShipFrame(gesture) ==
    /\ lastTime < now
    /\ \A i \in 1..Len(shieldTimers) : ~timerDue(shieldTimers[i])
    /\ LET dt == Min(now - lastTime, MaxDelta)
           s0 == rollAnimate(ship, now)
       IN  IF s0.hull > 0
           THEN /\ ship' = ShipUpdate(s0, dt, gesture, now)
                /\ shieldTimers' =
                      IF gesture = "SHIELD" /\ shieldStarts(s0)
                      THEN newShieldTimers(shieldTimers, now)
                      ELSE shieldTimers
           ELSE /\ ship' = s0
                /\ shieldTimers' = shieldTimers
    /\ lastTime' = now
    /\ ret' = "none"
    /\ UNCHANGED <<now, hits, waveVars, weaponVars, enemyVars,
                   handVars>>

\* A takeDamage call made later in the same Game.update: an enemy projectile
\* (WaveManager.updateProjectiles) or an asteroid (game.js 374-381).
TakeDamage(amount) ==
    /\ lastTime = now
    /\ ship.hull > 0
    /\ hits < MaxHits
    /\ LET r == takeDamage(ship, amount * K) IN
         /\ ship' = r.ship
         /\ ret' = r.ret
    /\ hits' = hits + 1
    /\ UNCHANGED <<now, lastTime, shieldTimers, waveVars, weaponVars, enemyVars,
                   handVars>>

\* The ship's resources under gestures and the shield's timers.
NextShip ==
    \/ Tick(MaxTime, TickSteps)
    \/ \E i \in 1..Len(shieldTimers) : ShieldDrainTick(i)
    \/ \E i \in 1..Len(shieldTimers) : ShieldTimeout(i)
    \/ \E g \in ShipGestures : ShipFrame(g)

SpecShip == Init /\ [][NextShip]_vars

\* Barrel rolls under fire.
NextRoll ==
    \/ Tick(MaxRollTime, TickSteps)
    \/ \E g \in RollGestures : ShipFrame(g)
    \/ \E a \in RollDamage : TakeDamage(a)

SpecRoll == Init /\ [][NextRoll]_vars

\* takeDamage applied to a range of ship states
DamageInputs ==
    { [ShipInit EXCEPT !.shield = sh * 10 * K, !.hull = hu * 10 * K,
                       !.isInvulnerable = inv,
                       !.rollStart = IF inv THEN 0 ELSE NoRoll] :
        sh \in 0..10, hu \in 1..10, inv \in BOOLEAN }

InitDamage ==
    /\ now = 0
    /\ lastTime = 0
    /\ ship \in DamageInputs
    /\ shieldTimers = <<>>
    /\ ret = "none"
    /\ hits = 0
    /\ WaveVarsInit
    /\ WeaponVarsInit
    /\ EnemyVarsInit
    /\ HandVarsInit

NextDamage == \E a \in DamageAmounts : TakeDamage(a)

SpecDamage == InitDamage /\ [][NextDamage]_vars

----------------------------------------------------------------------------
(* Game (js/game.js) and the wave manager *)

InitWave ==
    /\ now = 0
    /\ lastTime = 0
    /\ ship = ShipInit
    /\ shieldTimers = <<>>
    /\ ret = "none"
    /\ hits = 0
    /\ gameState = "menu"
    /\ isRunning = FALSE
    /\ frameDue = FALSE
    /\ loop = LoopInit
    /\ sessions = 0
    /\ rolls \in RollChoices
    /\ wm = WaveManagerInit(rolls)
    /\ activeEnemies = <<>>
    /\ waveTransitioning = FALSE
    /\ waveTimers = <<>>
    /\ completeCalls = 0
    /\ killCalls = <<>>
    /\ WeaponVarsInit
    /\ EnemyVarsInit
    /\ HandVarsInit

\* Wall-clock time passes up to the next display refresh: pending timeouts
\* come closer, and a running game loop gets its animation frame.
WaveTick ==
    /\ wm.currentWave <= MaxWave
    /\ ~(isRunning /\ frameDue)
    /\ \A i \in 1..Len(waveTimers) : waveTimers[i] > 0
    /\ \E d \in TickSteps :
         waveTimers' = [i \in 1..Len(waveTimers) |-> Max(0, waveTimers[i] - d)]
    /\ frameDue' = isRunning
    /\ UNCHANGED loop
    /\ UNCHANGED <<clockVars, shipVars, weaponVars, enemyVars, handVars,
                   gameState, isRunning, sessions, rolls,
                   wm, activeEnemies, waveTransitioning, completeCalls, killCalls>>

\* Game.startGame(): ship reset, cleanup, first wave, loop
startGame ==
    /\ sessions < MaxSessions
    /\ sessions' = sessions + 1
    /\ ship' = [ship EXCEPT !.hull = maxHull * K, !.shield = maxShield * K,
                            !.energy = maxEnergy * K]
    /\ activeEnemies' = <<>>                      \* waveManager.cleanup()
    /\ projectiles' = <<>>                        \* weapons.cleanup()
    /\ harpoons' = <<>>
    /\ weapons' = cleanup(weapons)
    /\ wm' = startWave(wm, 1, rolls)
    /\ completeCalls' = 0
    /\ gameState' = "playing"
    /\ isRunning' = TRUE
    /\ lastTime' = now
    /\ loop' = [loop EXCEPT !.pending = @ + 1]     \* requestAnimationFrame
    /\ UNCHANGED <<now, shieldTimers, ret, hits, killCalls, pc, deltaTime,
                   meshes, fireResult, fireCalls, enemyVars, handVars,
                   frameDue, rolls, waveTransitioning, waveTimers>>

\* the start button of the main menu
StartGame == gameState = "menu" /\ startGame

\* Game.restart(): the restart button of the game-over screen
Restart == gameState = "gameover" /\ startGame

\* Game.returnToMenu(): quit from the pause menu or from the game-over screen
ReturnToMenu ==
    /\ gameState \in {"paused", "gameover"}
    /\ gameState' = "menu"
    /\ isRunning' = FALSE
    /\ frameDue' = FALSE
    /\ UNCHANGED loop
    /\ activeEnemies' = <<>>                      \* waveManager.cleanup()
    /\ projectiles' = <<>>                        \* weapons.cleanup()
    /\ harpoons' = <<>>
    /\ weapons' = cleanup(weapons)
    /\ UNCHANGED <<clockVars, shipVars, pc, deltaTime, meshes,
                   fireResult, fireCalls, enemyVars, handVars, sessions,
                   rolls, wm, waveTransitioning, waveTimers, completeCalls, killCalls>>

Pause ==
    /\ gameState = "playing"
    /\ gameState' = "paused"
    /\ UNCHANGED <<clockVars, shipVars, weaponVars, enemyVars, handVars,
                   isRunning, frameDue, loop, sessions, rolls,
                   wm, activeEnemies, waveTransitioning, waveTimers,
                   completeCalls, killCalls>>

Resume ==
    /\ gameState = "paused"
    /\ gameState' = "playing"
    /\ UNCHANGED <<clockVars, shipVars, weaponVars, enemyVars, handVars,
                   isRunning, frameDue, loop, sessions, rolls,
                   wm, activeEnemies, waveTransitioning, waveTimers,
                   completeCalls, killCalls>>

\* Game.gameLoop(time) on an animation frame, as far as waves are concerned.
\* While playing it runs Game.update: the weapons hit enemy `hit` with
\* `shots` railgun slugs (0: they hit nobody), WaveManager.update runs, the
\* ship may have been destroyed (shipDies), and a completed wave schedules
\* the next one.
WaveFrame(hit, shots, shipDies, dt) ==
    /\ isRunning /\ frameDue
    /\ frameDue' = FALSE
    /\ UNCHANGED loop
    /\ hit \in 0..Len(activeEnemies)
    /\ IF gameState = "playing"
       THEN LET u == WaveUpdate(wm,
                                damageEnemy(activeEnemies, hit,
                                            railgunDamage * shots),
                                dt)
            IN  /\ wm' = u.wm
                /\ activeEnemies' = u.enemies
                /\ completeCalls' =
                      IF u.completed THEN completeCalls + 1 ELSE completeCalls
                /\ UNCHANGED killCalls
                /\ gameState' = IF shipDies THEN "gameover" ELSE gameState
                /\ IF isWaveComplete(u.wm) /\ ~waveTransitioning
                   THEN /\ waveTransitioning' = TRUE
                        /\ waveTimers' = Append(waveTimers, waveDelay)
                   ELSE UNCHANGED <<waveTransitioning, waveTimers>>
       ELSE /\ hit = 0 /\ shots = 1 /\ ~shipDies
            /\ UNCHANGED <<wm, activeEnemies, completeCalls, killCalls, gameState,
                           waveTransitioning, waveTimers>>
    /\ UNCHANGED <<clockVars, shipVars, weaponVars, enemyVars, handVars,
                   isRunning, sessions, rolls>>

\* the wave-transition callback that leaves its timeout pending
WaveTimer_mut(i) ==
    /\ i \in 1..Len(waveTimers)
    /\ waveTimers[i] = 0
    /\ wm' = startWave(wm, NoWave, rolls)
    /\ completeCalls' = 0
    /\ waveTransitioning' = FALSE
    /\ waveTimers' = [waveTimers EXCEPT ![i] = waveDelay]
    /\ UNCHANGED <<killCalls, clockVars, shipVars, weaponVars, enemyVars,
                   handVars, gameState, isRunning, frameDue, loop,
                   sessions, rolls, activeEnemies>>

\* the wave-transition setTimeout callback (game.js 423-428)
WaveTimer(i) ==
    /\ i \in 1..Len(waveTimers)
    /\ waveTimers[i] = 0
    /\ wm' = startWave(wm, NoWave, rolls)
    /\ completeCalls' = 0
    /\ waveTransitioning' = FALSE
    /\ waveTimers' = RemoveAt(waveTimers, i)
    /\ UNCHANGED <<killCalls, clockVars, shipVars, weaponVars, enemyVars, handVars,
                   gameState, isRunning, frameDue, loop,
                   sessions, rolls, activeEnemies>>

NextWave ==
    \/ WaveTick
    \/ StartGame
    \/ Restart
    \/ ReturnToMenu
    \/ Pause
    \/ Resume
    \/ \E hit \in 0..4, shots \in Salvo, shipDies \in BOOLEAN, dt \in FrameDeltas :
          WaveFrame(hit, shots, shipDies, dt)
    \/ \E i \in 1..Len(waveTimers) : WaveTimer(i)

SpecWave == InitWave /\ [][NextWave]_vars

\* ---------------------------------------------------------------------
\* The animation-frame callbacks of the game loop (js/game.js 255-338,
\* 522-562), with no weapon fired.

\* n consecutive Game.update runs of one display frame, as far as the waves
\* are concerned: the first with the frame's deltaTime, the others with 0
RECURSIVE runUpdates(_, _, _, _)
runUpdates(w, enemies, dt, n) ==
    IF n = 0
    THEN [ wm |-> w, enemies |-> enemies, killed |-> <<>>, completes |-> 0 ]
    ELSE LET u == WaveUpdate(w, enemies, dt)
             rest == runUpdates(u.wm, u.enemies, 0, n - 1)
         IN  [ wm |-> rest.wm, enemies |-> rest.enemies,
               killed |-> IF n = 1 THEN u.killed ELSE rest.killed,
               completes |-> rest.completes + (IF u.completed THEN 1 ELSE 0) ]

\* A display frame d ms after the last: the browser runs every gameLoop
\* callback registered before it, all with the same timestamp.  A callback
\* returns at once when isRunning is false; otherwise it runs Game.update
\* while the state is "playing" (the first update may end the game:
\* shipDies) and registers itself again.
LoopFrame(d, shipDies) ==
    /\ loop.pending > 0
    /\ now + d <= MaxLoopTime
    /\ now' = now + d
    /\ shipDies => isRunning /\ gameState = "playing"
    /\ IF ~isRunning
       THEN /\ loop' = [ pending |-> 0, updates |-> 0 ]
            /\ UNCHANGED <<lastTime, deltaTime, wm, activeEnemies, killCalls,
                           completeCalls, gameState, waveTransitioning,
                           waveTimers>>
       ELSE LET dt == Min(now' - lastTime, MaxDelta)
                n == IF gameState # "playing" THEN 0
                     ELSE IF shipDies THEN 1 ELSE loop.pending
                u == runUpdates(wm, activeEnemies, dt, n)
            IN  /\ loop' = [ pending |-> loop.pending, updates |-> n ]
                /\ lastTime' = now'
                /\ deltaTime' = IF loop.pending > 1 THEN 0 ELSE dt
                /\ wm' = u.wm
                /\ activeEnemies' = u.enemies
                /\ killCalls' = IF n = 0 THEN killCalls ELSE u.killed
                /\ completeCalls' = completeCalls + u.completes
                /\ gameState' = IF shipDies THEN "gameover" ELSE gameState
                /\ IF n > 0 /\ isWaveComplete(u.wm) /\ ~waveTransitioning
                   THEN /\ waveTransitioning' = TRUE
                        /\ waveTimers' = Append(waveTimers, waveDelay)
                   ELSE UNCHANGED <<waveTransitioning, waveTimers>>
    /\ UNCHANGED <<shipVars, isRunning, frameDue, sessions, rolls, pc,
                   weapons, projectiles, harpoons, meshes, fireResult,
                   fireCalls, enemyVars, handVars>>

NextLoop ==
    \/ StartGame
    \/ Restart
    \/ ReturnToMenu
    \/ Pause
    \/ Resume
    \/ \E d \in LoopSteps, shipDies \in BOOLEAN : LoopFrame(d, shipDies)

SpecLoop == InitWave /\ [][NextLoop]_vars

----------------------------------------------------------------------------
(* Game.update and the weapons.  The frame is taken in three steps:        *)
(* the ship update and the gesture, the firePrimary call, and the          *)
(* weapon and wave-manager updates.                                        *)

\* A wave in progress: a coward and a hunter ahead of the ship, the third
\* enemy of wave 1 already killed.  Enemies hold their positions.
InitWeapons ==
    /\ now \in StartTimes
    /\ lastTime = now
    /\ \E e \in WeaponEnergies : ship = [ShipInit EXCEPT !.energy = e * K]
    /\ shieldTimers = <<>>
    /\ ret = "none"
    /\ hits = 0
    /\ gameState = "playing"
    /\ isRunning = TRUE
    /\ frameDue = FALSE
    /\ loop = LoopInit
    /\ sessions = 1
    /\ rolls = [i \in Draws |-> 0]
    /\ wm = [startWave(WaveManagerInit(rolls), 1, rolls) EXCEPT
                !.enemiesToSpawn = <<>>, !.timeSinceLastSpawn = 0,
                !.enemiesRemaining = 2, !.totalKills = 1]
    /\ activeEnemies =
          << [ type |-> "coward", health |-> EnemyStats("coward").health,
               wave |-> 1, id |-> 1, z |-> 230 ],
             [ type |-> "hunter", health |-> EnemyStats("hunter").health,
               wave |-> 1, id |-> 2, z |-> 450 ] >>
    /\ waveTransitioning = FALSE
    /\ waveTimers = <<>>
    /\ completeCalls = 0
    /\ killCalls = <<>>
    /\ pc = "idle"
    /\ deltaTime = 0
    /\ weapons = WeaponsInit
    /\ projectiles = <<>>
    /\ harpoons = <<>>
    /\ meshes = [ id \in {1, 2} |-> IF id = 1 THEN 230 ELSE 450 ]
    /\ fireResult = "none"
    /\ fireCalls = 0
    /\ EnemyVarsInit
    /\ HandVarsInit

\* keys 1, 2, 3 (Game.onKeyDown), between two frames
SelectWeapon(name) ==
    /\ pc = "idle"
    /\ weapons' = selectWeapon(weapons, name)
    /\ UNCHANGED <<clockVars, shipVars, waveVars, pc, deltaTime, projectiles,
                   harpoons, meshes, fireResult, fireCalls, enemyVars, handVars>>

\* Game.gameLoop -> Game.update, first step: Aurelian.update, and the weapon
\* switch of FIRE_SECONDARY
WeaponsFrameBegin(gesture) ==
    /\ pc = "idle"
    /\ lastTime < now
    /\ gesture # "IDLE" => fireCalls < MaxFireCalls
    /\ LET dt == Min(now - lastTime, MaxDelta) IN
         /\ deltaTime' = dt
         /\ ship' = ShipUpdate(rollAnimate(ship, now), dt, gesture, now)
    /\ lastTime' = now
    /\ weapons' = IF gesture = "FIRE_SECONDARY"
                     /\ weapons.currentWeapon # "harpoon"
                  THEN selectWeapon(weapons, "harpoon")
                  ELSE weapons
    /\ pc' = IF gesture = "IDLE" THEN "update" ELSE "fire"
    /\ fireResult' = "none"
    /\ UNCHANGED <<now, shieldTimers, ret, hits, waveVars, projectiles,
                   harpoons, meshes, fireCalls, enemyVars, handVars>>

\* second step: the firePrimary() call of FIRE_PRIMARY and FIRE_SECONDARY
FirePrimary ==
    /\ pc = "fire"
    /\ LET r == firePrimary(weapons, ship, projectiles, harpoons, now) IN
         /\ weapons' = r.weapons
         /\ ship' = r.ship
         /\ projectiles' = r.projectiles
         /\ harpoons' = r.harpoons
         /\ fireResult' = IF r.result THEN "true" ELSE "false"
    /\ fireCalls' = fireCalls + 1
    /\ pc' = "update"
    /\ UNCHANGED <<clockVars, shieldTimers, ret, hits, waveVars, deltaTime,
                   meshes, enemyVars, handVars>>

\* third step: Weapons.update on the roster, then WaveManager's enemy
\* loop: every enemy of the roster updates (its mesh goes back to its own
\* position) and the dead ones leave
WeaponsFrameEnd ==
    /\ pc = "update"
    /\ LET u == WeaponsUpdate(projectiles, harpoons, activeEnemies, meshes,
                              deltaTime, now)
           d == removeDead(wm, u.enemies, Len(u.enemies))
       IN  /\ projectiles' = u.projectiles
           /\ harpoons' = u.harpoons
           /\ meshes' = [ id \in DOMAIN u.meshes |->
                            IF \E e \in 1..Len(u.enemies) : u.enemies[e].id = id
                            THEN u.enemies[CHOOSE e \in 1..Len(u.enemies) :
                                             u.enemies[e].id = id].z
                            ELSE u.meshes[id] ]
           /\ activeEnemies' = d.enemies
           /\ wm' = d.wm
           /\ killCalls' = d.killed
    /\ pc' = "idle"
    /\ UNCHANGED <<clockVars, shipVars, gameState, isRunning, frameDue, loop,
                   sessions, rolls, waveTransitioning, waveTimers,
                   completeCalls, deltaTime, weapons, fireResult, fireCalls,
                   enemyVars, handVars>>

NextWeapons ==
    \/ Tick(Latest(StartTimes) + MaxWeaponTime, WeaponSteps)
    \/ \E name \in WeaponNames : SelectWeapon(name)
    \/ \E g \in FireGestures : WeaponsFrameBegin(g)
    \/ FirePrimary
    \/ WeaponsFrameEnd

SpecWeapons == InitWeapons /\ [][NextWeapons]_vars

----------------------------------------------------------------------------
(* One enemy in WaveManager.update *)

\* the distances an enemy at distance d can be at after one frame
Reach(d) ==
    { x \in EnemyDistances :
        Cardinality({ y \in EnemyDistances :
                        (y > x /\ y < d) \/ (y > d /\ y < x) }) = 0 }

InitEnemy ==
    /\ now \in StartTimes
    /\ lastTime = now
    /\ ship = ShipInit
    /\ shieldTimers = <<>>
    /\ ret = "none"
    /\ hits = 0
    /\ WaveVarsInit
    /\ WeaponVarsInit
    /\ \E type \in EnemyTypes : enemy = NewEnemy(type, 900)
    /\ attackLog = <<>>
    /\ HandVarsInit

\* One frame for the enemy: the weapons hit it for dmg (Weapons.update),
\* then its turn in the enemy loop of WaveManager.update: update, attack if
\* canAttack, and removal when dead.
EnemyFrame(dmg, dist) ==
    /\ lastTime < now
    /\ enemy.inRoster
    /\ dist \in Reach(enemy.distance)
    /\ LET e1 == [enemy EXCEPT !.health = @ - dmg]
           e2 == EnemyUpdate(e1, dist)
           a == IF canAttack(e2, now) THEN attack(e2, now)
                ELSE [ enemy |-> e2, data |-> FALSE ]
       IN  /\ enemy' = [a.enemy EXCEPT !.inRoster = ~(a.enemy.health <= 0)]
           /\ attackLog' = IF a.data THEN Append(attackLog, now) ELSE attackLog
    /\ lastTime' = now
    /\ UNCHANGED <<now, shipVars, waveVars, weaponVars, handVars>>

NextEnemy ==
    \/ Tick(Latest(StartTimes) + MaxEnemyTime, TickSteps)
    \/ \E dmg \in EnemyDamage, dist \in EnemyDistances : EnemyFrame(dmg, dist)

SpecEnemy == InitEnemy /\ [][NextEnemy]_vars

----------------------------------------------------------------------------
(* The hand tracker on camera frames *)

HandInputs(xs) ==
    {NoHand} \cup
    { analyzeHand([ index |-> sh.index, middle |-> sh.middle, ring |-> sh.ring,
                    pinky |-> sh.pinky, thumb |-> sh.thumb, pinch |-> sh.pinch,
                    x |-> x, y |-> AimOne \div 2,
                    tipX |-> x, tipY |-> AimOne \div 2 ]) :
        sh \in HandShapes, x \in xs }

\* processResults(results): the hands of this camera frame, detectGesture
\* with the onGestureChange call it makes, and updateAimPosition
ProcessResults(l, r) ==
    /\ leftHand' = l
    /\ rightHand' = r
    /\ previousGesture' = currentGesture
    /\ LET g == detectGesture(l, r) IN
         /\ currentGesture' = g.gesture
         /\ notified' = IF g.atEnd /\ g.gesture # currentGesture
                        THEN << <<g.gesture, currentGesture>> >>
                        ELSE <<>>
    /\ LET a == updateAimPosition(aimPosition, smoothAimPosition, r) IN
         /\ aimPosition' = a.aimPosition
         /\ smoothAimPosition' = a.smoothAimPosition
    /\ UNCHANGED <<clockVars, shipVars, waveVars, weaponVars, enemyVars>>

NextHands ==
    \E l \in HandInputs(LeftPalmX), r \in HandInputs(RightPalmX) :
        ProcessResults(l, r)

SpecHands == Init /\ [][NextHands]_vars

\* camera frames for the aim: no left hand, the right hand absent or seen
\* with its palm centre at p and its index tip at q
AimInputs ==
    {NoHand} \cup
    { analyzeHand([ index |-> sh.index, middle |-> sh.middle, ring |-> sh.ring,
                    pinky |-> sh.pinky, thumb |-> sh.thumb, pinch |-> sh.pinch,
                    x |-> p.x, y |-> p.y, tipX |-> q.x, tipY |-> q.y ]) :
        sh \in AimShapes, p \in AimPoints, q \in AimPoints }

NextAim == \E r \in AimInputs : ProcessResults(NoHand, r)

SpecAim == Init /\ [][NextAim]_vars

----------------------------------------------------------------------------
(* The ship's timed effects in a game that can be paused *)

InitPause ==
    /\ now = 0
    /\ lastTime = 0
    /\ ship = ShipInit
    /\ shieldTimers = <<>>
    /\ ret = "none"
    /\ hits = 0
    /\ gameState = "playing"
    /\ isRunning = TRUE
    /\ frameDue = FALSE
    /\ loop = LoopInit
    /\ sessions = 1
    /\ rolls = [i \in Draws |-> 0]
    /\ wm = WaveManagerInit(rolls)
    /\ activeEnemies = <<>>
    /\ waveTransitioning = FALSE
    /\ waveTimers = <<>>
    /\ completeCalls = 0
    /\ killCalls = <<>>
    /\ WeaponVarsInit
    /\ EnemyVarsInit
    /\ HandVarsInit

\* A display frame while the game is not playing: the roll animation callback
\* runs, Game.gameLoop takes the time and skips Game.update.
IdleFrame ==
    /\ gameState # "playing"
    /\ lastTime < now
    /\ \A i \in 1..Len(shieldTimers) : ~timerDue(shieldTimers[i])
    /\ ship' = rollAnimate(ship, now)
    /\ lastTime' = now
    /\ UNCHANGED <<now, shieldTimers, ret, hits, waveVars, weaponVars,
                   enemyVars, handVars>>

\* A display frame while the game is playing
PlayFrame(gesture) == gameState = "playing" /\ ShipFrame(gesture)

NextPause ==
    \/ Tick(MaxPauseTime, TickSteps)
    \/ \E i \in 1..Len(shieldTimers) : ShieldDrainTick(i)
    \/ \E i \in 1..Len(shieldTimers) : ShieldTimeout(i)
    \/ \E g \in PauseGestures : PlayFrame(g)
    \/ IdleFrame
    \/ Pause
    \/ Resume

SpecPause == InitPause /\ [][NextPause]_vars

----------------------------------------------------------------------------
(* The beam weapon, driven through the methods of Weapons *)

\* rosters for the beam: x is an enemy's distance from the ship's forward axis
BeamEnemy(id, type, z, x) ==
    [ type |-> type, health |-> EnemyStats(type).health, wave |-> 1,
      id |-> id, z |-> z, x |-> x ]

BeamRosters ==
    { << BeamEnemy(1, "coward", 230, 0), BeamEnemy(2, "hunter", 450, 10) >>,
      << BeamEnemy(1, "hunter", 450, 0), BeamEnemy(2, "coward", 230, 29) >>,
      << BeamEnemy(1, "coward", 230, 200), BeamEnemy(2, "hunter", -100, 0) >> }

InitBeam ==
    /\ now \in StartTimes
    /\ lastTime = now
    /\ \E e \in WeaponEnergies : ship = [ShipInit EXCEPT !.energy = e * K]
    /\ shieldTimers = <<>>
    /\ ret = "none"
    /\ hits = 0
    /\ gameState = "playing"
    /\ isRunning = TRUE
    /\ frameDue = FALSE
    /\ loop = LoopInit
    /\ sessions = 1
    /\ rolls = [i \in Draws |-> 0]
    /\ wm = [startWave(WaveManagerInit(rolls), 1, rolls) EXCEPT
                !.enemiesToSpawn = <<>>, !.timeSinceLastSpawn = 0,
                !.enemiesRemaining = 2, !.totalKills = 1]
    /\ activeEnemies \in BeamRosters
    /\ waveTransitioning = FALSE
    /\ waveTimers = <<>>
    /\ completeCalls = 0
    /\ killCalls = <<>>
    /\ pc = "idle"
    /\ deltaTime = 0
    /\ weapons = WeaponsInit
    /\ projectiles = <<>>
    /\ harpoons = <<>>
    /\ meshes = [ id \in {1, 2} |-> activeEnemies[id].z ]
    /\ fireResult = "none"
    /\ fireCalls = 0
    /\ EnemyVarsInit
    /\ HandVarsInit

\* Weapons.toggleLaser(active)
ToggleLaser(active) ==
    /\ weapons' = toggleLaser(weapons, ship, active)
    /\ UNCHANGED <<clockVars, shipVars, waveVars, pc, deltaTime, projectiles,
                   harpoons, meshes, fireResult, fireCalls, enemyVars, handVars>>

\* Weapons.cleanup()
Cleanup ==
    /\ weapons' = cleanup(weapons)
    /\ projectiles' = <<>>
    /\ harpoons' = <<>>
    /\ UNCHANGED <<clockVars, shipVars, waveVars, pc, deltaTime, meshes,
                   fireResult, fireCalls, enemyVars, handVars>>

\* Weapons.update(deltaTime, enemies): projectiles, beam, harpoons; a throw
\* in updateBeam leaves the harpoons of this call not updated
BeamUpdate(dt) ==
    /\ LET a == updateProjectiles(projectiles, activeEnemies, meshes,
                                  Len(projectiles), dt, now)
           r == updateBeam(weapons, ship, a.enemies, meshes, dt)
           b == updateHarpoons(harpoons, r.enemies, meshes, Len(harpoons),
                               dt, now)
       IN  /\ projectiles' = a.projectiles
           /\ weapons' = r.weapons
           /\ ship' = r.ship
           /\ IF r.weapons.fault
              THEN /\ activeEnemies' = r.enemies
                   /\ UNCHANGED <<harpoons, meshes>>
              ELSE /\ activeEnemies' = b.enemies
                   /\ harpoons' = b.harpoons
                   /\ meshes' = b.meshes
    /\ deltaTime' = dt
    /\ UNCHANGED <<clockVars, shieldTimers, ret, hits, gameState, isRunning,
                   frameDue, loop, sessions, rolls, wm, waveTransitioning,
                   waveTimers, completeCalls, killCalls, pc, fireResult, fireCalls,
                   enemyVars, handVars>>

NextBeam ==
    \/ \E active \in BOOLEAN : ToggleLaser(active)
    \/ \E name \in WeaponNames : SelectWeapon(name)
    \/ Cleanup
    \/ \E dt \in FrameDeltas : BeamUpdate(dt)

SpecBeam == InitBeam /\ [][NextBeam]_vars

----------------------------------------------------------------------------
(* The wave manager, driven through startWave and update *)

InitConfig ==
    /\ now = 0
    /\ lastTime = 0
    /\ ship = ShipInit
    /\ shieldTimers = <<>>
    /\ ret = "none"
    /\ hits = 0
    /\ gameState = "playing"
    /\ isRunning = TRUE
    /\ frameDue = FALSE
    /\ loop = LoopInit
    /\ sessions = 1
    /\ rolls \in ConfigRolls
    /\ wm = WaveManagerInit(rolls)
    /\ activeEnemies = <<>>
    /\ waveTransitioning = FALSE
    /\ waveTimers = <<>>
    /\ completeCalls = 0
    /\ killCalls = <<>>
    /\ WeaponVarsInit
    /\ EnemyVarsInit
    /\ HandVarsInit

\* WaveManager.startWave(waveNumber) with no enemy about, as after cleanup()
\* or a cleared wave; pc records that no update has run since. The call
\* without a number is explored on a new manager and into the last wave.
ConfigStartWave(waveNumber) ==
    /\ activeEnemies = <<>>
    /\ waveNumber = NoWave => wm.currentWave \in {0, MaxConfigWave - 1}
    /\ (IF waveNumber # NoWave THEN waveNumber ELSE wm.currentWave + 1)
          <= MaxConfigWave
    /\ wm' = startWave(wm, waveNumber, rolls)
    /\ completeCalls' = 0
    /\ pc' = "started"
    /\ UNCHANGED <<clockVars, shipVars, gameState, isRunning, frameDue, loop,
                   sessions, rolls, activeEnemies, waveTransitioning,
                   waveTimers, killCalls, deltaTime, weapons, projectiles,
                   harpoons, meshes, fireResult, fireCalls, enemyVars,
                   handVars>>

\* Enemy.takeDamage(amount) on the i-th active enemy while it is alive, as
\* Weapons.update calls it before WaveManager.update
ConfigHit(i, amount) ==
    /\ i \in 1..Len(activeEnemies)
    /\ activeEnemies[i].health > 0
    /\ wm.totalKills
         + Cardinality({ e \in 1..Len(activeEnemies) :
                           /\ e # i
                           /\ activeEnemies[e].health
                                < EnemyStats(activeEnemies[e].type).health })
         < MaxKills
    /\ activeEnemies' = damageEnemy(activeEnemies, i, amount)
    /\ UNCHANGED <<clockVars, shipVars, gameState, isRunning, frameDue, loop,
                   sessions, rolls, wm, waveTransitioning, waveTimers,
                   completeCalls, killCalls, weaponVars, enemyVars, handVars>>

\* WaveManager.update(deltaTime, player, weapons), with the callbacks Game
\* sets
ConfigUpdate(dt) ==
    /\ completeCalls < MaxCompleteCalls
    /\ LET u == WaveUpdate(wm, activeEnemies, dt)
       IN  /\ wm' = u.wm
           /\ activeEnemies' = u.enemies
           /\ killCalls' = u.killed
           /\ completeCalls' =
                 IF u.completed THEN completeCalls + 1 ELSE completeCalls
    /\ pc' = IF pc = "cleaned" THEN pc ELSE "idle"
    /\ deltaTime' = dt
    /\ UNCHANGED <<clockVars, shipVars, gameState, isRunning, frameDue, loop,
                   sessions, rolls, waveTransitioning, waveTimers,
                   weapons, projectiles, harpoons, meshes,
                   fireResult, fireCalls, enemyVars, handVars>>

\* WaveManager.cleanup(); pc records that it discarded enemies of the wave
ConfigCleanup ==
    /\ activeEnemies' = <<>>
    /\ pc' = IF activeEnemies # <<>> THEN "cleaned" ELSE pc
    /\ UNCHANGED <<clockVars, shipVars, gameState, isRunning, frameDue, loop,
                   sessions, rolls, wm, waveTransitioning, waveTimers,
                   completeCalls, killCalls, deltaTime, weapons, projectiles,
                   harpoons, meshes, fireResult, fireCalls, enemyVars,
                   handVars>>

NextConfig ==
    \/ \E n \in ConfigWaves : ConfigStartWave(n)
    \/ ConfigCleanup
    \/ \E i \in 1..2, amount \in ConfigDamage : ConfigHit(i, amount)
    \/ \E dt \in ConfigDeltas : ConfigUpdate(dt)

SpecConfig == InitConfig /\ [][NextConfig]_vars

----------------------------------------------------------------------------
(* Claims *)

\* C1: for every wave started by startWave, onWaveComplete is invoked exactly
\* once: at most one invocation between two startWave calls.
C1_CompleteOnce == completeCalls <= 1

\* C2: whenever isWaveComplete() is true the spawn queue is empty and no
\* enemy spawned for the current wave is still in the active roster.
C2_CompleteMeansCleared ==
    isWaveComplete(wm) =>
        /\ Len(wm.enemiesToSpawn) = 0
        /\ \A i \in 1..Len(activeEnemies) :
              activeEnemies[i].wave # wm.currentWave

\* C3: after any sequence of ship updates with THRUST, BOOST, SHIELD and
\* BARREL_ROLL gestures, with the shield's drain ticks in between, the ship's
\* energy is at least 0 and at most maxEnergy.
C3_EnergyInRange == 0 <= ship.energy /\ ship.energy <= maxEnergy * K

\* C4: a barrel roll that starts makes the ship invulnerable for rollDuration:
\* the flag is set exactly while a roll is pending, a pending roll ends only
\* once it is rollDuration old, every takeDamage call made while a roll is
\* pending falls less than rollDuration after its start and leaves hull and
\* shield alone and reports no death, and a takeDamage call with a positive
\* amount made when no roll is pending (the first frame after the window has
\* expired included) reduces shield or hull.
C4_RollInvulnerability ==
    [][ /\ ship.isInvulnerable <=> (ship.rollStart # NoRoll)
        /\ (ship.rollStart # NoRoll /\ ship'.rollStart # ship.rollStart)
              => now - ship.rollStart >= rollDuration
        /\ \A a \in RollDamage :
              TakeDamage(a) =>
                IF ship.rollStart # NoRoll
                THEN /\ now - ship.rollStart < rollDuration
                     /\ ship'.hull = ship.hull
                     /\ ship'.shield = ship.shield
                     /\ ret' # "true"
                ELSE a > 0 => \/ ship'.shield < ship.shield
                              \/ ship'.hull < ship.hull ]_vars

\* C4 witness: a roll was made rollDuration plus one frame ago (the energy
\* shows it), a first hit was ignored, the window has just expired, and a
\* second hit of 10 has landed on the full shield.
C4_Witness ==
    /\ ship.rollStart = NoRoll
    /\ hits = 2
    /\ ship.shield = (maxShield - 10) * K
    /\ ship.energy = (maxEnergy - rollCost) * K
                        + energyRegen * (rollDuration + MaxDelta)
    /\ ret = "false"
    /\ ship.shield < maxShield * K

\* C5: for a ship that is not invulnerable and an amount >= 0, takeDamage
\* takes min(shield, amount) from the shield and the rest from the hull, and
\* returns true exactly when the hull is then <= 0.
C5_DamageSplit ==
    [][ \A a \in DamageAmounts :
          (TakeDamage(a) /\ ~ship.isInvulnerable) =>
             LET absorbed == Min(ship.shield, a * K) IN
               /\ ship'.shield = ship.shield - absorbed
               /\ ship'.hull = ship.hull - (a * K - absorbed)
               /\ ret' \in {"true", "false"}
               /\ (ret' = "true") <=> (ship'.hull <= 0) ]_vars

\* C5 witness: shield 0, hull 10, amount 50 gives hull -40 and death
C5_Witness ==
    /\ hits = 1 /\ ret = "true"
    /\ ship.shield = 0 /\ ship.hull = -40 * K

\* C6: once an enemy has left the active roster, the next Weapons.update
\* leaves no harpoon attached to it: after every Weapons.update each harpoon
\* still attached is attached to an enemy of the roster that update was
\* given, and has followed and pulled no other.
C6_HarpoonLetsGo ==
    [][ WeaponsFrameEnd =>
          \A h \in 1..Len(harpoons') :
             /\ harpoons'[h].attached =>
                   harpoons'[h].attachedTo \in RosterIds(activeEnemies)
             /\ harpoons'[h].followed # NoEnemy =>
                   harpoons'[h].followed \in RosterIds(activeEnemies) ]_vars

\* C7: canAttack() is false from a successful attack() until attackCooldown
\* has elapsed since it, so that two successful attacks are at least
\* attackCooldown apart; and whenever canAttack() is true the target is
\* within attackRange and the state is strafe, snipe, ram or kamikaze.
C7_AttackCooldown ==
    LET stats == EnemyStats(enemy.type) IN
    /\ \A i \in 1..Len(attackLog) :
          now - attackLog[i] < stats.attackCooldown => ~canAttack(enemy, now)
    /\ \A i \in 2..Len(attackLog) :
          attackLog[i] - attackLog[i - 1] >= stats.attackCooldown
    /\ canAttack(enemy, now) =>
          /\ enemy.distance <= stats.attackRange
          /\ enemy.state \in AttackStates

\* C7 witness: the enemy has attacked once, the cooldown has elapsed since,
\* and canAttack() is true again
C7_Witness ==
    /\ Len(attackLog) = 1
    /\ now - attackLog[1] >= EnemyStats(enemy.type).attackCooldown
    /\ enemy.inRoster
    /\ canAttack(enemy, now)

\* C8: every firePrimary() call that returns true, whatever the current
\* weapon, has taken the weapon's energy cost from the ship, set the weapon's
\* lastFired to now, and added exactly one projectile of that weapon to the
\* in-flight lists.
C8_FireSpawns ==
    [][ (FirePrimary /\ fireResult' = "true") =>
          LET name == weapons.currentWeapon IN
            /\ ship'.energy = ship.energy - WeaponStats(name).energyCost * K
            /\ weapons'.lastFired[name] = now
            /\ Len(projectiles') + Len(harpoons')
                  = Len(projectiles) + Len(harpoons) + 1
            /\ name = "railgun" => Len(projectiles') = Len(projectiles) + 1
            /\ name = "harpoon" => Len(harpoons') = Len(harpoons) + 1 ]_vars

\* C9: a firePrimary() call made while the current weapon's cooldown has not
\* elapsed, or with less ship energy than the weapon costs, returns false and
\* leaves the ship, the weapons' lastFired times and the projectile and
\* harpoon lists as they were; a call that returns true comes at least the
\* weapon's cooldown after the weapon's lastFired time.
C9_FailedFireIsNoOp ==
    [][ FirePrimary =>
          LET name == weapons.currentWeapon
              stats == WeaponStats(name)
              last == weapons.lastFired[name]
          IN  /\ ( \/ (last # Undefined /\ now - last < stats.cooldown)
                   \/ ship.energy < stats.energyCost * K )
                    => /\ fireResult' = "false"
                       /\ ship' = ship
                       /\ weapons' = weapons
                       /\ projectiles' = projectiles
                       /\ harpoons' = harpoons
              /\ (fireResult' = "true" /\ last # Undefined)
                    => now - last >= stats.cooldown ]_vars

\* C9 witness: the railgun was fired one frame ago, the ship has the energy
\* for another shot, and the call just made was refused
C9_Witness ==
    /\ pc = "update"
    /\ fireResult = "false"
    /\ weapons.currentWeapon = "railgun"
    /\ weapons.lastFired["railgun"] > 0
    /\ now - weapons.lastFired["railgun"] < WeaponStats("railgun").cooldown
    /\ ship.energy >= WeaponStats("railgun").energyCost * K

\* C10: a processed camera frame makes exactly one onGestureChange(new, old)
\* call when its gesture differs from the previous frame's, whatever the new
\* gesture is, and none when it is the same.
C10_NotifyOnChange ==
    notified = IF currentGesture # previousGesture
               THEN << <<currentGesture, previousGesture>> >>
               ELSE <<>>

\* C11: a shield that was activated stays active until shieldDuration has
\* passed since its activation or the energy is exhausted, and is off from
\* then on: while the shield is active its own timeout is pending, energy is
\* above 0 and the clock is not past the activation by more than
\* shieldDuration; and a step that turns the shield off comes shieldDuration
\* after the activation or leaves energy at 0 or below.  The activation time
\* is read off the newest timeout, which the active shield made.
C11_ShieldWindow ==
    [][ ship.shieldActive =>
          /\ Len(shieldTimers) > 0
          /\ LET since == shieldTimers[Len(shieldTimers)].timeoutAt
                            - shieldDuration
             IN  /\ ship.energy > 0
                 /\ now - since <= shieldDuration
                 /\ ~ship'.shieldActive =>
                       \/ now - since >= shieldDuration
                       \/ ship'.energy <= 0 ]_vars

\* C12: timed effects advance only with the deltaTime given to an update:
\* over a step taken while the game is not playing (no update runs) the
\* ship's energy, its shield flag and its invulnerability flag do not change.
C12_PausedFreezes ==
    [][ gameState # "playing" =>
          /\ ship'.energy = ship.energy
          /\ ship'.shieldActive = ship.shieldActive
          /\ ship'.isInvulnerable = ship.isInvulnerable ]_vars

\* C13: after a switch of weapons with selectWeapon nothing is left in
\* flight: no railgun projectile, no harpoon with its tether, and the beam
\* weapon is inactive.
C13_SwitchTearsDown ==
    [][ weapons'.currentWeapon # weapons.currentWeapon =>
          /\ projectiles' = <<>>
          /\ harpoons' = <<>>
          /\ ~weapons'.laserActive ]_vars

\* C14: every session that startGame begins starts from reset progress:
\* current wave 1, total kills 0, hull, shield and energy at their maxima,
\* and neither invulnerability nor an active shield carried over.
C14_FreshSession ==
    [][ sessions' = sessions + 1 =>
          /\ wm'.currentWave = 1
          /\ wm'.totalKills = 0
          /\ ship'.hull = maxHull * K
          /\ ship'.shield = maxShield * K
          /\ ship'.energy = maxEnergy * K
          /\ ~ship'.isInvulnerable
          /\ ~ship'.shieldActive ]_vars

\* C15: a Weapons.update with the beam active that leaves the ship with
\* energy completes without a fault and damages exactly the enemy the ray
\* cast ends on, the nearest one ahead within maxRange and within its hit
\* radius of the axis; with no such enemy nobody is damaged.
C15_BeamDamage ==
    [][ /\ weapons.laserActive /\ weapons.activeBeam
        /\ ship'.energy < ship.energy
        /\ ship'.energy > 0
        => /\ ~weapons'.fault
           /\ Len(activeEnemies') = Len(activeEnemies)
           /\ LET target == beamTarget(activeEnemies, meshes) IN
                \A e \in 1..Len(activeEnemies) :
                   IF e = target
                   THEN activeEnemies'[e].health < activeEnemies[e].health
                   ELSE activeEnemies'[e].health = activeEnemies[e].health ]_vars

\* C16: after an enemy's update with a target its state is given by its
\* type, its distance to the target and its health fraction alone, by first
\* match: vanguard kamikaze / ram / charge / pursue, hunter retreat / evade /
\* strafe / flank / pursue, coward flee / flee / snipe / approach / idle.
\* The state before the update plays no part.
C16_StateTable ==
    [][ lastTime' # lastTime =>
          LET type == enemy.type
              distance == enemy.distance
              low == enemy'.health * 100
                        < EnemyStats(type).retreatThreshold
                            * EnemyStats(type).maxHealth
              range == EnemyStats(type).attackRange
          IN  enemy'.state =
                CASE type = "vanguard" ->
                        IF low THEN "kamikaze"
                        ELSE IF distance < range THEN "ram"
                        ELSE IF distance < 800 THEN "charge" ELSE "pursue"
                  [] type = "hunter" ->
                        IF low THEN "retreat"
                        ELSE IF distance < 150 THEN "evade"
                        ELSE IF distance < range THEN "strafe"
                        ELSE IF distance < 600 THEN "flank" ELSE "pursue"
                  [] type = "coward" ->
                        IF low \/ distance < 200 THEN "flee"
                        ELSE IF distance < range THEN "snipe"
                        ELSE IF distance < 800 THEN "approach" ELSE "idle" ]_vars

\* a hunter that was strafing has come within 150 of its target and evades
C16_Witness ==
    /\ enemy.type = "hunter"
    /\ enemy.state = "evade"
    /\ enemy.inRoster
    /\ Len(attackLog) > 0

\* C17: with both hands present a two-hand condition that holds decides the
\* gesture whatever else the hands show (a pinch included): open palms more
\* than 0.4 apart BARREL_ROLL, open palms less than 0.3 apart BOOST, fists
\* less than 0.2 apart SHIELD.  Only without one does the right hand decide
\* (pinch, fist, open palm, pointing, in this order), and after it the left
\* hand's pinch.
C17_TwoHandPriority ==
    LET l == leftHand
        r == rightHand
        both == l.present /\ r.present
        dist == Abs(l.palmX - r.palmX)
        roll == both /\ l.isOpenPalm /\ r.isOpenPalm /\ dist > 40
        push == both /\ l.isOpenPalm /\ r.isOpenPalm /\ dist < 30
        cup == both /\ l.isFist /\ r.isFist /\ dist < 20
    IN  /\ roll => currentGesture = "BARREL_ROLL"
        /\ push => currentGesture = "BOOST"
        /\ cup => currentGesture = "SHIELD"
        /\ ~roll /\ ~push /\ ~cup =>
             /\ currentGesture \notin {"BARREL_ROLL", "BOOST", "SHIELD"}
             /\ r.present /\ r.isPinching => currentGesture = "FIRE_PRIMARY"
             /\ r.present /\ ~r.isPinching /\ r.isFist =>
                   currentGesture = "BRAKE"
             /\ r.present /\ ~r.isPinching /\ ~r.isFist /\ r.isOpenPalm =>
                   currentGesture = "THRUST"
             /\ r.present /\ ~r.isPinching /\ ~r.isFist /\ ~r.isOpenPalm
                  /\ r.isPointing => currentGesture = "AIM"
             /\ ~(r.present /\ (r.isPinching \/ r.isFist \/ r.isOpenPalm
                                  \/ r.isPointing))
                  /\ l.present /\ l.isPinching =>
                   currentGesture = "FIRE_SECONDARY"

\* both hands pinch with open palms far apart, and the gesture is the roll
C17_Witness ==
    /\ leftHand.present /\ rightHand.present
    /\ leftHand.isOpenPalm /\ rightHand.isOpenPalm
    /\ leftHand.isPinching /\ rightHand.isPinching
    /\ Abs(leftHand.palmX - rightHand.palmX) > 40
    /\ currentGesture = "BARREL_ROLL"

C20_AimConverges ==
    [][ \A c \in {"x", "y"} :
          LET target == aimPosition'[c]
              before == smoothAimPosition[c]
              after == smoothAimPosition'[c]
          IN  /\ Abs(target - after) <= Abs(target - before)
              /\ before <= target => before <= after /\ after <= target
              /\ before >= target => before >= after /\ after >= target
              /\ 0 <= after /\ after <= AimOne ]_vars

\* the second frame in a row with the same target at the right-hand edge:
\* the smoothed x is part of the way there
C20_Witness ==
    /\ rightHand.present
    /\ aimPosition.x = AimOne
    /\ smoothAimPosition.x > (3 * AimOne) \div 4
    /\ smoothAimPosition.x < AimOne

\* C21: each precomputed boss wave (5, 10, 15, 20) with c = 3 + floor(0.8
\* wave) enemies holds floor(0.5 c) vanguards, floor(0.3 c) hunters and
\* cowards for the rest, c in all, whatever the shuffle drew.
C21_BossComposition ==
    \A wave \in {5, 10, 15, 20} :
        LET c == 3 + ((wave * 8) \div 10)
            list == wm.waveConfigs[wave].enemies
            count(type) == Cardinality({ i \in 1..Len(list) : list[i] = type })
        IN  /\ Len(list) = c
            /\ count("vanguard") = (5 * c) \div 10
            /\ count("hunter") = (3 * c) \div 10
            /\ count("coward") = c - ((5 * c) \div 10) - ((3 * c) \div 10)

\* boss wave 10 has started with a list the shuffle has reordered: a hunter
\* comes first
C21_Witness ==
    /\ wm.currentWave = 10
    /\ pc = "started"
    /\ Len(wm.enemiesToSpawn) = 11
    /\ wm.enemiesToSpawn[1] = "hunter"

\* C22: startWave, with a number or without one, in the table or beyond it,
\* leaves enemiesRemaining at the length of the wave's list and the spawn
\* queue equal to that list; the table as stored never changes; and the first
\* update after it spawns exactly one enemy, the head of the queue, whatever
\* deltaTime is.
C22_StartWave ==
    [][ /\ wm'.waveConfigs = wm.waveConfigs
        /\ pc' = "started" =>
             LET cw == wm'.currentWave
                 list == IF cw \in 1..20 THEN wm.waveConfigs[cw].enemies
                         ELSE generateNormalWaveEnemies(cw, 5 + cw, rolls)
             IN  /\ wm'.enemiesRemaining = Len(list)
                 /\ wm'.enemiesToSpawn = list
                 /\ Len(list) > 0
        /\ pc = "started" /\ pc' = "idle" =>
             /\ Len(activeEnemies') = Len(activeEnemies) + 1
             /\ activeEnemies'[Len(activeEnemies')].type = Head(wm.enemiesToSpawn)
             /\ wm'.enemiesToSpawn = Tail(wm.enemiesToSpawn) ]_vars

\* the first update after startWave(21), a wave beyond the table, with
\* deltaTime 0: one enemy is out, 25 wait
C22_Witness ==
    /\ wm.currentWave = 21
    /\ pc = "idle"
    /\ deltaTime = 0
    /\ Len(activeEnemies) = 1
    /\ Len(wm.enemiesToSpawn) = 25


\* C23: every WaveManager.update removes each active enemy whose health is
\* <= 0 in that same update, calls onEnemyKilled once for each of them, and
\* lowers enemiesRemaining and raises totalKills by one for each; no enemy
\* with health > 0 is removed and no enemy is counted twice.
C23_DeadRemoved ==
    [][ (\E dt \in ConfigDeltas : ConfigUpdate(dt)) =>
          LET dead == { i \in 1..Len(activeEnemies) :
                          activeEnemies[i].health <= 0 }
              alive == SelectSeq(activeEnemies, LAMBDA e : e.health > 0)
          IN  /\ Len(killCalls') = Cardinality(dead)
              /\ \A t \in EnemyTypes :
                    Cardinality({ k \in 1..Len(killCalls') :
                                    killCalls'[k] = t })
                      = Cardinality({ i \in dead :
                                        activeEnemies[i].type = t })
              /\ wm'.totalKills = wm.totalKills + Cardinality(dead)
              /\ wm'.enemiesRemaining
                    = wm.enemiesRemaining - Cardinality(dead)
              /\ Len(activeEnemies') >= Len(alive)
              /\ SubSeq(activeEnemies', 1, Len(alive)) = alive
              /\ \A k \in 1..Len(activeEnemies') :
                    activeEnemies'[k].health > 0
      ]_vars

\* two enemies died in one update that left a live enemy in the roster
C23_Witness ==
    /\ pc = "idle"
    /\ Len(killCalls) = 2
    /\ wm.totalKills = 2
    /\ Len(activeEnemies) >= 1
    /\ wm.enemiesRemaining = Len(wm.enemiesToSpawn) + Len(activeEnemies)


\* C24: within one playing session that is not left (no game over, no
\* return to the menu), the first update that sees wave n complete
\* schedules one startWave after the transition delay, later updates during
\* the delay schedule none, and the callback runs once on the completed wave
\* and sets the current wave to n + 1.
C24_OneStartPerWave ==
    [][ /\ sessions = 1 /\ sessions' = 1
        /\ gameState \in {"playing", "paused"}
        /\ gameState' \in {"playing", "paused"}
        =>
        /\ Len(waveTimers') <= 1
        /\ waveTransitioning' <=> Len(waveTimers') = 1
        /\ Len(waveTimers') > Len(waveTimers) =>
              /\ isWaveComplete(wm')
              /\ waveTimers' = <<waveDelay>>
        /\ completeCalls' > 0 => Len(waveTimers') = 1
        /\ wm'.currentWave # wm.currentWave =>
              /\ isWaveComplete(wm)
              /\ waveTimers = <<0>>
              /\ waveTimers' = <<>>
              /\ wm'.currentWave = wm.currentWave + 1
              /\ ~isWaveComplete(wm')
      ]_vars

\* the first session has cleared wave 1 and its one callback started wave 2
C24_Witness ==
    /\ sessions = 1
    /\ gameState = "playing"
    /\ wm.currentWave = 2
    /\ wm.totalKills > 0
    /\ waveTimers = <<>>
    /\ ~waveTransitioning


C26_OneLoop == loop.pending <= 1 /\ loop.updates <= 1


\* C27: the wave-transition callback never runs startWave() while the spawn
\* queue is non-empty or enemies remain, however restart and return to menu
\* interleave with the pending timer; a restarted session leaves wave 1 only
\* when wave 1 is cleared.
C27_AdvanceOnlyWhenComplete ==
    [][ Len(waveTimers') < Len(waveTimers) =>
          /\ Len(wm.enemiesToSpawn) = 0
          /\ wm.enemiesRemaining <= 0
          /\ activeEnemies = <<>>
      ]_vars


\* C28: an enemy whose health is <= 0 never produces an attack: in no
\* WaveManager.update does an enemy that the update removes as dead create
\* an enemy projectile.
C28_DeadNeverAttacks ==
    [][ enemy.inRoster /\ ~enemy'.inRoster => attackLog' = attackLog ]_vars


\* C29: in every state reached through toggleLaser, updateBeam, selectWeapon
\* and cleanup the laser's active flag is true exactly when a beam object
\* exists, so that toggleLaser(true) with energy >= 5 leaves an active beam.
C29_ActiveIffBeam == weapons.laserActive <=> weapons.activeBeam


\* C30: the shield drains energy only while shieldActive is true and at
\* most one drain timer exists at a time: after any activations, early
\* deactivations, re-activations and timer expiries no drain tick lowers the
\* energy while the shield is inactive and no two drain intervals run
\* together.
C30_DrainOnlyWhileActive ==
    [][ /\ (\E i \in 1..Len(shieldTimers) : ShieldDrainTick(i)) =>
              ship.shieldActive
        /\ Cardinality({ i \in 1..Len(shieldTimers') :
                           shieldTimers'[i].interval }) <= 1
      ]_vars

====
